---- MODULE Spec2Model ----
(***************************************************************************)
(* Chapter-boundary detection of the ebook2text converters.                *)
(*                                                                         *)
(* Text is modelled as a sequence of one-character strings.  Besides the   *)
(* literal characters "*", ".", " " and the newline NL, four lexemes stand *)
(* for a whole word each, so that the classifier's prefix/suffix tests run *)
(* on real sequences:                                                      *)
(*    "T"  the book title  (metadata["title"])                             *)
(*    "W"  the author      (metadata["author"])                            *)
(*    "C"  the word "chapter"                                              *)
(*    "k"  a front/back-matter keyword of NOT_CHAPTER                      *)
(*    "9"  a digit, "a" a letter of body text                              *)
(* str.lower() maps "T", "W" and "C" to "t", "w" and "c": the same word in *)
(* lower case.                                                             *)
(*                                                                         *)
(* The module holds several specifications over one set of variables; a    *)
(* specification leaves the variables of the other components unchanged.   *)
(*    SpecCompare  compare_lines applied to every argument triple          *)
(*    SpecPDF      PDFConverter.parse_file / _process_page_text            *)
(*    SpecOut      write_text / return_string of the four converters       *)
(*    SpecWrite    write_text called directly, on any sequence of contents *)
(*    SpecDocx     DocxConverter.parse_file / _process_text                *)
(*    SpecEpub     EpubConverter.parse_file / _process_chapter_text on an  *)
(*                 item drawn from every list of up to MaxElements texts   *)
(*    SpecOcr      run_ocr against every sequence of service responses     *)
(*    SpecIsChapter  is_chapter on lines with and without whitespace       *)
(*    SpecRoman      roman_to_int on every short string of numerals        *)
(*    SpecWords      word_to_num on number spellings and concatenations    *)
(*    SpecMetadata   is_not_chapter and check_line, metadata keys missing  *)
(*    SpecAddLine    PDFConverter._add_line_to_page on every short line    *)
(*    SpecCleanText  clean_text and parse_text_file of text_conversion.py  *)
(*    SpecRead       convert_file writing while the source is being read   *)
(*    SpecImages     PDFImageExtractor._get_image and extract_images       *)
(*    SpecBlobs      DocxImageExtractor._extract_image_blobs               *)
(*    SpecPDFLoop    the loop of _process_page_text, with its progress     *)
(*                                                                         *)
(* Roman numerals and number words are spelled in their own letters, and   *)
(* roman_to_int and word_to_num read every character as itself.            *)
(*                                                                         *)
(* In the answers of the OCR service "R1".."R4" stand for the four refusal *)
(* phrases of GPT_REFUSALS and "N" for the answer "No text found".         *)
(***************************************************************************)
EXTENDS Naturals, Sequences, FiniteSets, TLC

VARIABLES
    \* ---- compare_lines called on its own (SpecCompare)
    arg_previous_line,    \* argument previous_line
    arg_current_line,     \* argument current_line
    arg_last_action,      \* argument last_action
    ret_action,           \* the returned LineAction, "none" before the call
    \* ---- PDFConverter (SpecPDF)
    pc,                   \* "start" | "while" | "yield" | "done"
    pending,              \* parts spliced into page_lines at index, not yet visited
    index,                \* local index of _process_page_text
    checked,              \* local checked
    previous_line_value,  \* local previous_line_value
    last_action,          \* local last_action
    _page,                \* self._page, the page buffer (a list of strings)
    page_text,            \* what _process_page_text returned for the page
    chunk,                \* the chunk parse_file yields for the page
    window,               \* history: the lines classified on this page
    emitted,              \* history: what this call appended to self._page
    last_line,            \* history: page_lines[index - 1], the element just visited
    after_discard,        \* history: the page before this one returned "" with
                          \*          lines already appended to the buffer
    \* ---- convert_file: write_text and return_string (SpecOut)
    converter,            \* "pdf" | "docx" | "epub" | "text"
    yielded,              \* the chunks parse_file has yielded so far
    file_exists,          \* output_path.exists()
    file_content,         \* the text of the output file
    result,               \* what return_string makes of the chunks, "none" before
    \* ---- DocxConverter.parse_file (SpecDocx)
    docx_pc,              \* "for": in the paragraph loop | "done": generator exhausted
    paragraphs,           \* history: the paragraphs the loop has consumed
    current_page,         \* local current_page
    current_para_index,   \* local current_para_index
    non_chapter,          \* self.non_chapter
    docx_chunks,          \* the chunks parse_file has yielded
    \* ---- EpubConverter.parse_file on one item (SpecEpub)
    epub_pc,              \* "item": the item not yet visited | "done"
    item,                 \* the item: its type, file name and text elements
    chapter_text,         \* what _process_chapter_text returned, "none" before
    epub_chunks,          \* the chunks parse_file has yielded
    \* ---- run_ocr (SpecOcr)
    ocr_pc,               \* "entry" | "create" | "except" | "returned" | "raised"
    base64_images,        \* argument base64_images
    retry,                \* argument retry of the innermost call
    responses,            \* history: what the service answered, call by call
    ocr_exception,        \* the exception in flight, "none" if there is none
    ocr_result,           \* the string run_ocr returned, "none" before
    \* ---- one function applied to one argument list (SpecRoman, SpecWords,
    \*      SpecIsChapter, SpecMetadata, SpecAddLine, SpecCleanText)
    call_pc,              \* "call": about to be called | "done": the call is over
    call_function,        \* the name of the function called
    call_args,            \* its arguments
    call_return,          \* [exc, value]: the exception the call raised or the
                          \* value it returned, "none" before the call
    \* ---- convert_file reading its source lazily (SpecRead)
    read_pc,              \* "for": in the loop | "returned" | "raised"
    source                \* what the reads still to come will do, unit by unit

cmpVars == <<arg_previous_line, arg_current_line, arg_last_action, ret_action>>
pdfVars == <<pc, pending, index, checked, previous_line_value, last_action,
             _page, page_text, chunk, window, emitted, last_line,
             after_discard>>
outVars == <<converter, yielded, file_exists, file_content, result>>
docxVars == <<docx_pc, paragraphs, current_page, current_para_index,
              non_chapter, docx_chunks>>
epubVars == <<epub_pc, item, chapter_text, epub_chunks>>
ocrVars == <<ocr_pc, base64_images, retry, responses, ocr_exception,
             ocr_result>>
callVars == <<call_pc, call_function, call_args, call_return>>
readVars == <<read_pc, source>>
vars == <<cmpVars, pdfVars, outVars, docxVars, epubVars, ocrVars, callVars,
          readVars>>

\* what each component leaves alone
notCmp ==
    <<pdfVars, outVars, docxVars, epubVars, ocrVars, callVars, readVars>>
notPdf ==
    <<cmpVars, outVars, docxVars, epubVars, ocrVars, callVars, readVars>>
notOut ==
    <<cmpVars, pdfVars, docxVars, epubVars, ocrVars, callVars, readVars>>
notDocx ==
    <<cmpVars, pdfVars, outVars, epubVars, ocrVars, callVars, readVars>>
notEpub ==
    <<cmpVars, pdfVars, outVars, docxVars, ocrVars, callVars, readVars>>
notCall ==
    <<cmpVars, pdfVars, outVars, docxVars, epubVars, ocrVars, readVars>>
notRead == <<cmpVars, pdfVars, docxVars, epubVars, ocrVars, callVars>>
notOcr ==
    <<cmpVars, pdfVars, outVars, docxVars, epubVars, callVars, readVars>>

-----------------------------------------------------------------------------
(* Enumerations: pdf_conversion/_enums.py *)

LineType == {"UNINITIALIZED", "HEADER", "CHAPTER", "NOT_CHAPTER", "LINE"}

LineAction == {"UNINITIALIZED", "FIRST_LINE", "RETURN_EMPTY", "CONTINUE",
               "ADD_SEPARATOR", "ADD_LINE"}

-----------------------------------------------------------------------------
(* Strings *)

NL == "\n"

Whitespace == {" ", NL}

RECURSIVE Join(_)
\* "".join(list)
Join(list) == IF list = <<>> THEN <<>> ELSE Head(list) \o Join(Tail(list))

StartsWith(s, p) == Len(p) <= Len(s) /\ SubSeq(s, 1, Len(p)) = p

EndsWith(s, p) ==
    Len(p) <= Len(s) /\ SubSeq(s, Len(s) - Len(p) + 1, Len(s)) = p

RECURSIVE LStripChars(_, _)
\* str.lstrip(chars): drops leading characters while they are in the set chars
LStripChars(s, chars) ==
    IF s # <<>> /\ Head(s) \in chars THEN LStripChars(Tail(s), chars) ELSE s

RECURSIVE RStripChars(_, _)
\* str.rstrip(chars)
RStripChars(s, chars) ==
    IF s # <<>> /\ s[Len(s)] \in chars
    THEN RStripChars(SubSeq(s, 1, Len(s) - 1), chars)
    ELSE s

\* part in text: part is a contiguous piece of text
Contains(text, part) ==
    \E i \in 0..(Len(text) - Len(part)) :
        SubSeq(text, i + 1, i + Len(part)) = part

StripChars(s, chars) == LStripChars(RStripChars(s, chars), chars)

\* The set of characters of a string, as str.lstrip reads its argument
CharsOf(s) == {s[i] : i \in 1..Len(s)}

RECURSIVE SplitOn(_, _)
\* str.split(sep) for a one-character sep: always at least one part
SplitOn(s, sep) ==
    IF \E i \in 1..Len(s) : s[i] = sep
    THEN LET i == CHOOSE k \in 1..Len(s) :
                      s[k] = sep /\ \A j \in 1..(k - 1) : s[j] # sep
         IN  <<SubSeq(s, 1, i - 1)>> \o SplitOn(SubSeq(s, i + 1, Len(s)), sep)
    ELSE <<s>>

RECURSIVE SplitWords(_)
\* str.split(): the maximal runs of non-whitespace characters
SplitWords(s) ==
    LET t == LStripChars(s, Whitespace)
    IN  IF t = <<>> THEN <<>>
        ELSE LET n == IF \E i \in 1..Len(t) : t[i] \in Whitespace
                      THEN (CHOOSE k \in 1..Len(t) :
                               t[k] \in Whitespace
                               /\ \A j \in 1..(k - 1) : t[j] \notin Whitespace) - 1
                      ELSE Len(t)
             IN  <<SubSeq(t, 1, n)>> \o SplitWords(SubSeq(t, n + 1, Len(t)))

RECURSIVE CollapseRuns(_, _)
\* re.sub(c+, c): every run of the character c becomes one c
CollapseRuns(s, c) ==
    IF Len(s) < 2 THEN s
    ELSE IF s[1] = c /\ s[2] = c THEN CollapseRuns(Tail(s), c)
    ELSE <<s[1]>> \o CollapseRuns(Tail(s), c)

RECURSIVE desmarten_text(_)
\* str.translate(punctuation_map); of the mapped characters the model's
\* alphabet has the bullet only
desmarten_text(s) ==
    IF s = <<>> THEN <<>>
    ELSE <<IF Head(s) = "BULLET" THEN "*" ELSE Head(s)>> \o desmarten_text(Tail(s))

-----------------------------------------------------------------------------
(* Chapter classifier: ebook_conversion/chapter_check.py *)

metadata == [title |-> <<"T">>, author |-> <<"W">>]

NOT_CHAPTER == {<<"k">>}

Digits == {"9"}

isdigit(s) == s # <<>> /\ \A i \in 1..Len(s) : s[i] \in Digits

\* what a call does: it returns a value or raises an exception
Returns(v) == [exc |-> "none", value |-> v]

Raises(e) == [exc |-> e, value |-> "none"]

LowerLetters ==
    <<"a", "b", "c", "d", "e", "f", "g", "h", "i", "j", "k", "l", "m",
    "n", "o", "p", "q", "r", "s", "t", "u", "v", "w", "x", "y", "z">>

UpperLetters ==
    <<"A", "B", "C", "D", "E", "F", "G", "H", "I", "J", "K", "L", "M",
    "N", "O", "P", "Q", "R", "S", "T", "U", "V", "W", "X", "Y", "Z">>

\* the character c with the letters of `from` replaced by those of `to`
MapLetter(c, from, to) ==
    IF \E k \in DOMAIN from : from[k] = c
    THEN to[CHOOSE k \in DOMAIN from : from[k] = c]
    ELSE c

RECURSIVE upper(_)
\* str.upper()
upper(s) ==
    IF s = <<>> THEN <<>>
    ELSE <<MapLetter(Head(s), LowerLetters, UpperLetters)>> \o upper(Tail(s))

RECURSIVE lower(_)
\* str.lower()
lower(s) ==
    IF s = <<>> THEN <<>>
    ELSE <<MapLetter(Head(s), UpperLetters, LowerLetters)>> \o lower(Tail(s))

\* str.count(c) for a one-character c
count(s, c) == Cardinality({i \in 1..Len(s) : s[i] = c})

RECURSIVE remove(_, _)
\* str.replace(c, "") for a one-character c
remove(s, c) ==
    IF s = <<>> THEN <<>>
    ELSE (IF Head(s) = c THEN <<>> ELSE <<Head(s)>>) \o remove(Tail(s), c)

ROMAN_NUMERALS ==
    [I |-> 1, V |-> 5, X |-> 10, L |-> 50, C |-> 100, D |-> 500, M |-> 1000]

\* mutant of not_subtractive: any smaller numeral may precede a larger one
not_subtractive_never(previous_char, char) == FALSE

\* the if/elif chain that raises when char, smaller than the numeral after
\* it, is not the numeral that may be subtracted from previous_char
not_subtractive(previous_char, char) ==
    \/ previous_char = ""
    \/ previous_char \in {"V", "X"} /\ char # "I"
    \/ previous_char \in {"L", "C"} /\ char # "X"
    \/ previous_char \in {"D", "M"} /\ char # "C"

RECURSIVE roman_loop(_, _, _, _, _, _)
\* the loop over reversed(roman) from position i down to 1, then the test
\* of the total
roman_loop(roman, i, total, prev_value, consecutive_count, previous_char) ==
    IF i = 0
    THEN IF total = 0 THEN Raises("ValueError") ELSE Returns(total)
    ELSE LET char == roman[i]
             consecutive == IF char = previous_char
                            THEN consecutive_count + 1 ELSE 1
         IN  IF char \notin DOMAIN ROMAN_NUMERALS THEN Raises("ValueError")
             ELSE IF consecutive > 3 THEN Raises("ValueError")
             ELSE LET value == ROMAN_NUMERALS[char]
                  IN  IF value >= prev_value
                      THEN roman_loop(roman, i - 1, total + value, value,
                                      consecutive, char)
                      ELSE IF not_subtractive(previous_char, char)
                      THEN Raises("ValueError")
                      ELSE roman_loop(roman, i - 1, total - value, value,
                                      consecutive, char)

roman_to_int(roman_num) ==
    LET roman == upper(roman_num)
    IN  IF \E numeral \in {"V", "L", "D"} : count(roman, numeral) > 1
        THEN Raises("ValueError")
        ELSE roman_loop(roman, Len(roman), 0, 0, 1, "")

num_words ==
    (<<"z", "e", "r", "o">> :> 0) @@
    (<<"o", "n", "e">> :> 1) @@
    (<<"t", "w", "o">> :> 2) @@
    (<<"t", "h", "r", "e", "e">> :> 3) @@
    (<<"f", "o", "u", "r">> :> 4) @@
    (<<"f", "i", "v", "e">> :> 5) @@
    (<<"s", "i", "x">> :> 6) @@
    (<<"s", "e", "v", "e", "n">> :> 7) @@
    (<<"e", "i", "g", "h", "t">> :> 8) @@
    (<<"n", "i", "n", "e">> :> 9) @@
    (<<"t", "e", "n">> :> 10) @@
    (<<"t", "e", "e", "n">> :> 10) @@
    (<<"e", "l", "e", "v", "e", "n">> :> 11) @@
    (<<"t", "w", "e", "l", "v", "e">> :> 12) @@
    (<<"t", "h", "i", "r", "t", "e", "e", "n">> :> 13) @@
    (<<"t", "w", "e", "n", "t", "y">> :> 20) @@
    (<<"t", "h", "i", "r", "t", "y">> :> 30) @@
    (<<"f", "o", "r", "t", "y">> :> 40) @@
    (<<"f", "i", "f", "t", "y">> :> 50) @@
    (<<"s", "i", "x", "t", "y">> :> 60) @@
    (<<"s", "e", "v", "e", "n", "t", "y">> :> 70) @@
    (<<"e", "i", "g", "h", "t", "y">> :> 80) @@
    (<<"n", "i", "n", "e", "t", "y">> :> 90)

RECURSIVE word_loop(_, _, _, _)
\* the loop over reversed(number_str) from position i down to 1, then the
\* test of the letters left over
word_loop(number_str, i, total, temp_word) ==
    IF i = 0
    THEN IF temp_word # <<>> THEN Raises("ValueError") ELSE Returns(total)
    ELSE LET word == <<number_str[i]>> \o temp_word
         IN  IF word \in DOMAIN num_words
             THEN word_loop(number_str, i - 1, total + num_words[word], <<>>)
             ELSE word_loop(number_str, i - 1, total, word)

word_to_num(number_string) ==
    IF number_string = <<>> THEN Raises("ValueError")
    ELSE LET string_number == remove(remove(lower(number_string), "-"), " ")
             number_str == lower(string_number)
         IN  word_loop(number_str, Len(number_str), 0, <<>>)

is_spelled_out_number(s) == word_to_num(s).exc # "ValueError"

is_roman_numeral(word) ==
    roman_to_int(word).exc \notin {"ValueError", "TypeError"}

is_number(s) == isdigit(s) \/ is_roman_numeral(s) \/ is_spelled_out_number(s)

is_chapter(s) ==
    StartsWith(s, <<"C">>) \/ (Len(SplitWords(s)) = 1 /\ is_number(s))

\* dict.get(key, default)
get(md, key, default) == IF key \in DOMAIN md THEN md[key] ELSE default

\* the default "no title found"
no_title_found ==
    <<"n", "o", " ", "t", "i", "t", "l", "e", " ", "f", "o", "u", "n", "d">>

\* the default "no author found"
no_author_found ==
    <<"n", "o", " ", "a", "u", "t", "h", "o", "r", " ", "f", "o", "u", "n",
      "d">>

is_not_chapter(paragraph, md) ==
    LET title == get(md, "title", no_title_found)
        author == get(md, "author", no_author_found)
        lowered == lower(paragraph)
    IN  \E not_chapter_word \in NOT_CHAPTER :
            \/ StartsWith(lowered, lower(title))
            \/ StartsWith(lowered, lower(author))
            \/ StartsWith(lowered, not_chapter_word)

-----------------------------------------------------------------------------
(* PDF line logic: pdf_conversion/pdf_line_logic.py *)

is_header(line, md) ==
    \/ StartsWith(line, md.title)
    \/ EndsWith(line, md.title)
    \/ StartsWith(line, md.author)
    \/ EndsWith(line, md.author)

\* is_header raises KeyError: `or` evaluates its operands from the left, and
\* the first subscript of a missing key is reached
KeyError_in_is_header(line, md) ==
    \/ "title" \notin DOMAIN md
    \/ /\ ~StartsWith(line, md.title)
       /\ ~EndsWith(line, md.title)
       /\ "author" \notin DOMAIN md

\* mutant of check_line: is_not_chapter is asked before is_chapter
check_line_not_chapter_first(line, md) ==
    IF is_header(line, md) THEN "HEADER"
    ELSE IF is_not_chapter(line, md) THEN "NOT_CHAPTER"
    ELSE IF is_chapter(line) THEN "CHAPTER"
    ELSE "LINE"

check_line(line, md) ==
    IF is_header(line, md) THEN "HEADER"
    ELSE IF is_chapter(line) THEN "CHAPTER"
    ELSE IF is_not_chapter(line, md) THEN "NOT_CHAPTER"
    ELSE "LINE"

\* mutant of comparisons: the entry (LINE, NOT_CHAPTER) is missing and the
\* entry (HEADER, CHAPTER) adds the line
comparisons_entries_lost(previous_line, current_line) ==
    CASE previous_line = "UNINITIALIZED" /\ current_line = "CHAPTER" -> "FIRST_LINE"
      [] previous_line = "UNINITIALIZED" /\ current_line = "HEADER" -> "FIRST_LINE"
      [] previous_line = "UNINITIALIZED" /\ current_line = "NOT_CHAPTER" -> "FIRST_LINE"
      [] previous_line = "CHAPTER" /\ current_line = "HEADER" -> "CONTINUE"
      [] previous_line = "NOT_CHAPTER" /\ current_line = "LINE" -> "RETURN_EMPTY"
      [] previous_line = "CHAPTER" /\ current_line = "CHAPTER" -> "ADD_SEPARATOR"
      [] OTHER -> "ADD_LINE"

\* the dictionary `comparisons` with its .get default
comparisons(previous_line, current_line) ==
    CASE previous_line = "UNINITIALIZED" /\ current_line = "CHAPTER" -> "FIRST_LINE"
      [] previous_line = "UNINITIALIZED" /\ current_line = "HEADER" -> "FIRST_LINE"
      [] previous_line = "UNINITIALIZED" /\ current_line = "NOT_CHAPTER" -> "FIRST_LINE"
      [] previous_line = "UNINITIALIZED" /\ current_line = "LINE" -> "ADD_LINE"
      [] previous_line = "HEADER" /\ current_line = "CHAPTER" -> "CONTINUE"
      [] previous_line = "CHAPTER" /\ current_line = "HEADER" -> "CONTINUE"
      [] previous_line = "NOT_CHAPTER" /\ current_line = "LINE" -> "RETURN_EMPTY"
      [] previous_line = "LINE" /\ current_line = "NOT_CHAPTER" -> "RETURN_EMPTY"
      [] previous_line = "CHAPTER" /\ current_line = "CHAPTER" -> "ADD_SEPARATOR"
      [] previous_line = "CHAPTER" /\ current_line = "LINE" -> "ADD_LINE"
      [] previous_line = "LINE" /\ current_line = "LINE" -> "ADD_LINE"
      [] OTHER -> "ADD_LINE"

\* mutant of compare_lines: the table is consulted without the override
compare_lines_table_only(previous_line, current_line, last) ==
    comparisons(previous_line, current_line)

compare_lines(previous_line, current_line, last) ==
    IF /\ last = "FIRST_LINE"
       /\ previous_line = "CHAPTER"
       /\ current_line = "LINE"
    THEN "ADD_SEPARATOR"
    ELSE comparisons(previous_line, current_line)

-----------------------------------------------------------------------------
(* SpecCompare: compare_lines on every triple of arguments *)

PdfIdle ==
    /\ pc = "start"
    /\ pending = <<>>
    /\ index = 0
    /\ checked = 0
    /\ previous_line_value = "UNINITIALIZED"
    /\ last_action = "UNINITIALIZED"
    /\ _page = <<>>
    /\ page_text = <<>>
    /\ chunk = <<>>
    /\ window = <<>>
    /\ emitted = <<>>
    /\ last_line = <<>>
    /\ after_discard = FALSE

CmpIdle ==
    /\ arg_previous_line = "UNINITIALIZED"
    /\ arg_current_line = "UNINITIALIZED"
    /\ arg_last_action = "UNINITIALIZED"
    /\ ret_action = "none"

DocxIdle ==
    /\ docx_pc = "for"
    /\ paragraphs = <<>>
    /\ current_page = <<>>
    /\ current_para_index = 0
    /\ non_chapter = FALSE
    /\ docx_chunks = <<>>

EpubIdle ==
    /\ epub_pc = "item"
    /\ item = [type |-> "ITEM_DOCUMENT", file_name |-> <<"a">>,
               elements |-> <<>>]
    /\ chapter_text = "none"
    /\ epub_chunks = <<>>

OcrIdle ==
    /\ ocr_pc = "entry"
    /\ base64_images = <<>>
    /\ retry = 0
    /\ responses = <<>>
    /\ ocr_exception = "none"
    /\ ocr_result = "none"

ReadIdle ==
    /\ read_pc = "for"
    /\ source = <<>>

CallIdle ==
    /\ call_pc = "call"
    /\ call_function = "none"
    /\ call_args = <<>>
    /\ call_return = "none"

OutIdle ==
    /\ converter = "pdf"
    /\ yielded = <<>>
    /\ file_exists = FALSE
    /\ file_content = <<>>
    /\ result = "none"

InitCompare ==
    /\ arg_previous_line \in LineType
    /\ arg_current_line \in LineType
    /\ arg_last_action \in LineAction
    /\ ret_action = "none"
    /\ PdfIdle
    /\ OutIdle
    /\ DocxIdle
    /\ EpubIdle
    /\ OcrIdle /\ CallIdle /\ ReadIdle

CallCompareLines ==
    /\ ret_action = "none"
    /\ ret_action' = compare_lines(arg_previous_line, arg_current_line,
                                   arg_last_action)
    /\ UNCHANGED <<arg_previous_line, arg_current_line, arg_last_action>>
    /\ UNCHANGED notCmp

NextCompare == CallCompareLines

SpecCompare == InitCompare /\ [][NextCompare]_vars

IsOverrideCase ==
    /\ arg_last_action = "FIRST_LINE"
    /\ arg_previous_line = "CHAPTER"
    /\ arg_current_line = "LINE"

\* C1: compare_lines returns ADD_SEPARATOR whenever last_action is
\* FIRST_LINE, previous_line is CHAPTER and current_line is LINE; the
\* override wins over the table, which for the pair (CHAPTER, LINE) alone
\* (any other last_action) gives ADD_LINE.
C1_OverrideWins ==
    (ret_action # "none" /\ arg_previous_line = "CHAPTER"
                        /\ arg_current_line = "LINE")
    => ret_action = IF arg_last_action = "FIRST_LINE"
                    THEN "ADD_SEPARATOR" ELSE "ADD_LINE"

C1_Witness == ret_action = "ADD_SEPARATOR" /\ IsOverrideCase

\* The transition table as section 4.2 of the specification lists it
SpecTable(p, c) ==
    IF p = "UNINITIALIZED" /\ c \in {"CHAPTER", "HEADER", "NOT_CHAPTER"}
    THEN "FIRST_LINE"
    ELSE IF <<p, c>> \in {<<"HEADER", "CHAPTER">>, <<"CHAPTER", "HEADER">>}
    THEN "CONTINUE"
    ELSE IF <<p, c>> \in {<<"NOT_CHAPTER", "LINE">>, <<"LINE", "NOT_CHAPTER">>}
    THEN "RETURN_EMPTY"
    ELSE IF <<p, c>> = <<"CHAPTER", "CHAPTER">>
    THEN "ADD_SEPARATOR"
    ELSE "ADD_LINE"

\* C2: outside the override case compare_lines returns exactly the entry of
\* the specification's table (ADD_LINE for every pair not listed), and it
\* never returns UNINITIALIZED.
C2_TableEntries ==
    ret_action # "none" =>
        /\ ret_action \in LineAction \ {"UNINITIALIZED"}
        /\ ~IsOverrideCase =>
               ret_action = SpecTable(arg_previous_line, arg_current_line)

C2_Witness ==
    /\ ret_action = "RETURN_EMPTY"
    /\ arg_previous_line = "LINE"
    /\ arg_current_line = "NOT_CHAPTER"
    /\ arg_last_action = "FIRST_LINE"

-----------------------------------------------------------------------------
(* PDFConverter: pdf_conversion/pdf_converter.py *)

\* Lines visited per page (blank ones included) before the page must end
MaxLines == 7

_max_lines_to_check == 6

_chapter_separator == <<"*", "*", "*", NL>>

SENTENCE_PUNCTUATION ==
    {<<".">>, <<"!">>, <<"?">>, <<".", "\"">>, <<"!", "\"">>, <<"?", "\"">>}

\* The elements PDFTextExtractor.extract_text can hand over for a page:
\* a running header, a chapter heading, a front-matter keyword, a body
\* line, a whitespace-only line, and a text box "a. \n" whose embedded
\* newline splits it into a punctuated line and an empty one.
RawLines ==
    { <<"T">>, <<"C">>, <<"k">>, <<"a">>, <<" ">>, <<"a", ".", " ", NL>> }

\* mutant of _ends_with_punctuation: trailing whitespace is not stripped
_ends_with_punctuation_unstripped(text) ==
    \E p \in SENTENCE_PUNCTUATION : EndsWith(text, p)

_ends_with_punctuation(text) ==
    \E p \in SENTENCE_PUNCTUATION : EndsWith(RStripChars(text, Whitespace), p)

\* len(page_lines) < self._max_lines_to_check; no method calls it
_is_title_page(n_page_lines) == n_page_lines < _max_lines_to_check

\* the call self.split_line(...) of _process_page_text, read as _split_line
_split_line(line) == SplitOn(line, NL)

remove_extra_whitespace(text) == CollapseRuns(CollapseRuns(text, NL), " ")

\* self._page after _add_line_to_page(line), given the buffer buf
_add_line_to_page(buf, line) ==
    IF _ends_with_punctuation(line)
    THEN Append(buf, RStripChars(line, Whitespace) \o <<NL>>)
    ELSE Append(buf, line)

\* mutant of WithinCap: the cap is off by one
WithinCap_off_by_one(n) == n <= _max_lines_to_check

\* the test `checked < self._max_lines_to_check` that opens the scan window
WithinCap(n) == n < _max_lines_to_check

\* mutant of ReturnAndYield: parse_file does not reset self._page
ReturnAndYield_no_reset(text) ==
    /\ page_text' = text
    /\ UNCHANGED _page
    /\ chunk' = remove_extra_whitespace(desmarten_text(text))
    /\ pc' = "yield"

\* mutant of ReturnAndYield: _is_title_page is consulted and empties a
\* page of fewer than 6 lines
ReturnAndYield_title_page(text) ==
    /\ page_text' = IF _is_title_page(index') THEN <<>> ELSE text
    /\ _page' = <<>>
    /\ chunk' = IF _is_title_page(index') THEN <<>>
                ELSE remove_extra_whitespace(desmarten_text(text))
    /\ pc' = "yield"

\* parse_file after _process_page_text has returned text: the buffer is
\* reset, the text cleaned and yielded
ReturnAndYield(text) ==
    /\ page_text' = text
    /\ _page' = <<>>
    /\ chunk' = remove_extra_whitespace(desmarten_text(text))
    /\ pc' = "yield"

\* One iteration of the while loop, page_lines[index] being element after
\* the in-place split and rest the spliced parts still to visit
Iteration(element, rest) ==
    LET line == LStripChars(StripChars(element, {"\r", NL}), Whitespace)
    IN  /\ index' = index + 1
        /\ pending' = rest
        /\ last_line' = element
        /\ UNCHANGED after_discard
        /\ IF line = <<>>
           THEN /\ pc' = "while"
                /\ UNCHANGED <<checked, previous_line_value, last_action,
                               _page, page_text, chunk, window, emitted>>
           ELSE IF WithinCap(checked)
           THEN LET line_value == check_line(line, metadata)
                    action == compare_lines(previous_line_value, line_value,
                                            last_action)
                    sep_page == IF action = "ADD_SEPARATOR"
                                THEN Append(_page, _chapter_separator)
                                ELSE _page
                    sep_emit == IF action = "ADD_SEPARATOR"
                                THEN Append(emitted, _chapter_separator)
                                ELSE emitted
                IN  /\ checked' = checked + 1
                    /\ last_action' = action
                    /\ previous_line_value' = line_value
                    /\ window' = Append(window, [line |-> line,
                                                 value |-> line_value,
                                                 action |-> action])
                    /\ IF action = "RETURN_EMPTY"
                       THEN /\ ReturnAndYield(<<>>)
                            /\ UNCHANGED emitted
                       ELSE IF action \in {"FIRST_LINE", "CONTINUE"}
                       THEN /\ pc' = "while"
                            /\ UNCHANGED <<_page, page_text, chunk, emitted>>
                       ELSE /\ _page' = _add_line_to_page(sep_page, line)
                            /\ emitted' = _add_line_to_page(sep_emit, line)
                            /\ pc' = "while"
                            /\ UNCHANGED <<page_text, chunk>>
           ELSE /\ _page' = _add_line_to_page(_page, line)
                /\ emitted' = _add_line_to_page(emitted, line)
                /\ pc' = "while"
                /\ UNCHANGED <<checked, previous_line_value, last_action,
                               page_text, chunk, window>>

\* mutant of replace_in_place: the parts are inserted before the element
\* instead of replacing it
replace_in_place_inserting(page_lines) ==
    LET split_lines == _split_line(Head(page_lines))
    IN  IF Len(split_lines) > 1 THEN split_lines \o page_lines
        ELSE page_lines

\* page_lines[index:] after `page_lines[index : index + 1] = split_lines`,
\* done when the element at index splits into more than one part
replace_in_place(page_lines) ==
    LET split_lines == _split_line(Head(page_lines))
    IN  IF Len(split_lines) > 1 THEN split_lines \o Tail(page_lines)
        ELSE page_lines

\* parse_file takes the next page and _process_page_text starts on it
NextPage ==
    /\ pc \in {"start", "yield"}
    /\ pc' = "while"
    /\ checked' = 0
    /\ index' = 0
    /\ previous_line_value' = "UNINITIALIZED"
    /\ last_action' = "UNINITIALIZED"
    /\ pending' = <<>>
    /\ page_text' = <<>>
    /\ chunk' = <<>>
    /\ window' = <<>>
    /\ emitted' = <<>>
    /\ last_line' = <<>>
    /\ after_discard' = (/\ pc = "yield"
                         /\ last_action = "RETURN_EMPTY"
                         /\ emitted # <<>>)
    /\ UNCHANGED _page
    /\ UNCHANGED notPdf

\* the loop reaches an element of page_lines it has not split yet
ReadLine ==
    /\ pc = "while"
    /\ pending = <<>>
    /\ index < MaxLines
    /\ \E element \in RawLines :
          LET page_lines == replace_in_place(<<element>>)
          IN  Iteration(Head(page_lines), Tail(page_lines))
    /\ UNCHANGED notPdf

\* the loop reaches a part that an earlier split put into page_lines
ReadSplitPart ==
    /\ pc = "while"
    /\ pending # <<>>
    /\ LET page_lines == replace_in_place(pending)
       IN  Iteration(Head(page_lines), Tail(page_lines))
    /\ UNCHANGED notPdf

\* index = len(page_lines): the loop ends and the joined buffer is returned
EndOfPage ==
    /\ pc = "while"
    /\ pending = <<>>
    /\ UNCHANGED <<index, checked, previous_line_value, last_action, pending,
                   window, emitted, last_line, after_discard>>
    /\ ReturnAndYield(Join(_page))
    /\ UNCHANGED notPdf

\* self.pages is exhausted
EndOfPages ==
    /\ pc \in {"start", "yield"}
    /\ pc' = "done"
    /\ UNCHANGED <<pending, index, checked, previous_line_value, last_action,
                   _page, page_text, chunk, window, emitted, last_line,
                   after_discard>>
    /\ UNCHANGED notPdf

InitPDF ==
    /\ CmpIdle /\ PdfIdle /\ OutIdle /\ DocxIdle /\ EpubIdle /\ OcrIdle
    /\ CallIdle /\ ReadIdle

NextPDF == NextPage \/ ReadLine \/ ReadSplitPart \/ EndOfPage \/ EndOfPages

SpecPDF == InitPDF /\ [][NextPDF]_vars

-----------------------------------------------------------------------------
(* Properties of PDF page processing *)

\* what _add_line_to_page appends for a line
Rendered(line) == _add_line_to_page(<<>>, line)[1]

\* the page was left by `return ""`
Discarded == window # <<>> /\ window[Len(window)].action = "RETURN_EMPTY"

Returned == pc \in {"yield", "done"} /\ index > 0

RECURSIVE CountSeparators(_)
\* the number of "***" tokens in a text
CountSeparators(text) ==
    IF Len(text) < 3 THEN 0
    ELSE IF SubSeq(text, 1, 3) = <<"*", "*", "*">>
    THEN 1 + CountSeparators(SubSeq(text, 4, Len(text)))
    ELSE CountSeparators(Tail(text))

C3_Case ==
    /\ Len(window) >= 2
    /\ window[1].value = "CHAPTER"
    /\ window[2].value = "LINE"

LoopStep == pc = "while" /\ index' = index + 1

StrippedLine(element) ==
    LStripChars(StripChars(element, {"\r", NL}), Whitespace)

-----------------------------------------------------------------------------
(* Output: convert_file.py and the converters' write_text / return_string *)

\* Chunks handed to write_text / return_string in one conversion
MaxChunks == 3

Converters == {"pdf", "docx", "epub", "text"}

\* str.strip() leaves nothing
IsBlank(text) == StripChars(text, Whitespace) = <<>>

RECURSIVE JoinWith(_, _)
\* sep.join(list)
JoinWith(list, sep) ==
    IF list = <<>> THEN <<>>
    ELSE IF Len(list) = 1 THEN Head(list)
    ELSE Head(list) \o sep \o JoinWith(Tail(list), sep)

RECURSIVE NonBlank(_)
\* (line for line in generator if line.strip())
NonBlank(list) ==
    IF list = <<>> THEN <<>>
    ELSE IF IsBlank(Head(list)) THEN NonBlank(Tail(list))
    ELSE <<Head(list)>> \o NonBlank(Tail(list))

\* self._chapter_separator of DocxConverter
Docx_chapter_separator == <<"*", "*", "*">>

\* self._chapter_separator of EpubConverter
Epub_chapter_separator == <<NL, "*", "*", "*", NL>>

\* TextParser sets self.chapter_separator; its _clean_before_write and
\* return_string read self._chapter_separator, taken as the same attribute
Text_chapter_separator == <<"*", "*", "*">>

\* Chunks parse_file yields.
\*   pdf   an emptied page; a body line; a punctuated body line; a heading
\*         followed by body; a body line that began with a bullet
\*   docx  a page of one paragraph; a page that is a heading only; heading
\*         and body; body, heading, body; a bulleted paragraph
\*   epub  the body of an item: one element, two elements, a bulleted one
\*   text  one line each: body, blank, heading, bulleted
ChunksOf(conv) ==
    CASE conv = "pdf" ->
            { <<>>, <<"a">>, <<"a", ".", NL>>, <<"*", "*", "*", NL, "a">>,
              <<"*", "a">> }
      [] conv = "docx" ->
            { <<"a">>, <<"*", "*", "*">>, <<"*", "*", "*", NL, "a">>,
              <<"a", NL, "*", "*", "*", NL, "a">>, <<"*", "a">> }
      [] conv = "epub" ->
            { <<"a">>, <<"a", NL, "a">>, <<"*", "a">> }
      [] conv = "text" ->
            { <<"a">>, <<>>, <<"*", "*", "*">>, <<"*", "a">> }

\* _clean_before_write that strips whether or not the file exists
_clean_before_write_always(separator, text, exists) ==
    LStripChars(text, CharsOf(separator))

\* _clean_before_write, the same in the four classes but for the separator
_clean_before_write(separator, text, exists) ==
    IF exists THEN text ELSE LStripChars(text, CharsOf(separator))

\* The text of the file after write_text(content, output_path), exists
\* being output_path.exists() before the call and file the text it held.
PDF_write_text(content, exists, file) ==
    IF IsBlank(content) THEN file
    ELSE file \o _clean_before_write(_chapter_separator, content, exists)

Docx_write_text(content, exists, file) ==
    file \o _clean_before_write(Docx_chapter_separator, content, exists)
         \o <<NL>>

Epub_write_text(content, exists, file) ==
    file \o Epub_chapter_separator
         \o _clean_before_write(Epub_chapter_separator, content, exists)

Text_write_text(content, exists, file) ==
    file \o _clean_before_write(Text_chapter_separator, content, exists)
         \o <<NL>>

PDF_return_string(generator) ==
    LStripChars(Join(NonBlank(generator)), CharsOf(_chapter_separator))

Docx_return_string(generator) ==
    LStripChars(JoinWith(NonBlank(generator), <<NL>>),
                CharsOf(Docx_chapter_separator))

\* return_string that puts the separator in front of every chunk
Epub_return_string_leading(generator) ==
    Join([ k \in 1..Len(generator) |->
              Epub_chapter_separator \o generator[k] ])

Epub_return_string(generator) ==
    JoinWith(generator, Epub_chapter_separator)

Text_return_string(generator) ==
    LStripChars(JoinWith(NonBlank(generator), <<NL>>),
                CharsOf(Text_chapter_separator))

\* converter.write_text(content, save_path)
write_text(conv, content, exists, file) ==
    CASE conv = "pdf" -> PDF_write_text(content, exists, file)
      [] conv = "docx" -> Docx_write_text(content, exists, file)
      [] conv = "epub" -> Epub_write_text(content, exists, file)
      [] conv = "text" -> Text_write_text(content, exists, file)

\* whether the file exists after write_text: open("a") creates it, and
\* PDFConverter.write_text returns before it for blank content
exists_after_write(conv, content, exists) ==
    IF conv = "pdf" /\ IsBlank(content) THEN exists ELSE TRUE

\* converter.return_string(converter.parse_file())
return_string(conv, generator) ==
    CASE conv = "pdf" -> PDF_return_string(generator)
      [] conv = "docx" -> Docx_return_string(generator)
      [] conv = "epub" -> Epub_return_string(generator)
      [] conv = "text" -> Text_return_string(generator)

InitOut ==
    /\ CmpIdle
    /\ PdfIdle
    /\ DocxIdle
    /\ EpubIdle
    /\ OcrIdle /\ CallIdle /\ ReadIdle
    /\ converter \in Converters
    /\ yielded = <<>>
    /\ file_exists = FALSE
    /\ file_content = <<>>
    /\ result = "none"

\* convert_file(save_file=True): parse_file yields a chunk and the loop
\* body passes it, unless empty, to write_text
WriteChunk ==
    /\ result = "none"
    /\ Len(yielded) < MaxChunks
    /\ \E content \in ChunksOf(converter) :
          /\ yielded' = Append(yielded, content)
          /\ IF content # <<>>
             THEN /\ file_content' = write_text(converter, content,
                                                file_exists, file_content)
                  /\ file_exists' = exists_after_write(converter, content,
                                                       file_exists)
             ELSE UNCHANGED <<file_exists, file_content>>
    /\ UNCHANGED <<converter, result>>
    /\ UNCHANGED notOut

\* convert_file(save_file=False) on the same chunks: return_string
ReturnString ==
    /\ result = "none"
    /\ result' = return_string(converter, yielded)
    /\ UNCHANGED <<converter, yielded, file_exists, file_content>>
    /\ UNCHANGED notOut

NextOut == WriteChunk \/ ReturnString

SpecOut == InitOut /\ [][NextOut]_vars

\* the first thing in a text, blank lines aside, is a chapter separator
LeadingSeparator(text) ==
    StartsWith(LStripChars(text, Whitespace), <<"*", "*", "*">>)

\* C10 (as claimed): for every converter neither the string return_string
\* produces nor the content of a freshly created output file has a chapter
\* separator before the first body text.
C10_NoLeadingSeparator ==
    /\ result # "none" => ~LeadingSeparator(result)
    /\ file_exists => ~LeadingSeparator(file_content)

-----------------------------------------------------------------------------
(* SpecWrite: write_text called directly on an output path that does not   *)
(* exist at first                                                          *)

\* self._chapter_separator of the converter
chapter_separator_of(conv) ==
    CASE conv = "pdf" -> _chapter_separator
      [] conv = "docx" -> Docx_chapter_separator
      [] conv = "epub" -> Epub_chapter_separator
      [] conv = "text" -> Text_chapter_separator

\* Contents passed to write_text: blank, body, a chunk that opens with the
\* converter's separator, a chunk that opens with "***" and a newline
WriteContents(conv) ==
    { <<" ">>, <<"a">>, chapter_separator_of(conv) \o <<"a">>,
      <<"*", "*", "*", NL, "a">> }

\* converter.write_text(content, output_path)
CallWriteText ==
    /\ Len(yielded) < MaxChunks
    /\ \E content \in WriteContents(converter) :
          /\ yielded' = Append(yielded, content)
          /\ file_content' = write_text(converter, content, file_exists,
                                        file_content)
          /\ file_exists' = exists_after_write(converter, content,
                                               file_exists)
    /\ UNCHANGED <<converter, result>>
    /\ UNCHANGED notOut

NextWrite == CallWriteText

SpecWrite == InitOut /\ [][NextWrite]_vars

\* what write_text puts before and after the cleaned content
FrameBefore(conv) == IF conv = "epub" THEN Epub_chapter_separator ELSE <<>>

FrameAfter(conv) == IF conv \in {"docx", "text"} THEN <<NL>> ELSE <<>>

\* content is a tail of text that does not open with the separator
SeparatorRemoved(text, content, separator) ==
    /\ ~StartsWith(text, separator)
    /\ \E k \in 0..Len(content) : text = SubSeq(content, k + 1, Len(content))

\* C11: in a sequence of write_text calls on a path that does not exist at
\* first, a call that finds the file appends the content as it is, leading
\* separator included; the call that creates the file writes the content
\* without its leading separator; a content PDFConverter skips as blank
\* neither creates the file nor changes it.
C11_StripOnlyOnCreate ==
    [][ yielded' # yielded =>
          LET content == yielded'[Len(yielded')]
              before == FrameBefore(converter)
              after == FrameAfter(converter)
          IN  IF converter = "pdf" /\ IsBlank(content)
              THEN file_exists' = file_exists /\ file_content' = file_content
              ELSE /\ file_exists'
                   /\ file_exists =>
                        file_content' =
                            file_content \o before \o content \o after
                   /\ ~file_exists =>
                        \E text \in { SubSeq(content, k + 1, Len(content)) :
                                        k \in 0..Len(content) } :
                           /\ SeparatorRemoved(text, content,
                                  chapter_separator_of(converter))
                           /\ file_content' = before \o text \o after ]_vars

\* a blank content skipped, then the file created by a content whose
\* separator was removed, then the same content appended with it
C11_Witness ==
    /\ converter = "pdf"
    /\ yielded = << <<" ">>, _chapter_separator \o <<"a">>,
                    _chapter_separator \o <<"a">> >>
    /\ file_content = <<"a">> \o _chapter_separator \o <<"a">>

-----------------------------------------------------------------------------
(* DOCX: docx_conversion/docx_converter.py, parse_file and _process_text   *)

\* Paragraphs read from one document
MaxParagraphs == 7

\* Paragraphs of one document that carry a page break
MaxPageBreaks == 2

\* self._max_lines_to_check of DocxConverter
Docx_max_lines_to_check == 6

\* What text_extractor.extract_text gives for a paragraph: nothing, a
\* chapter heading, a front/back-matter keyword, body text
ParagraphTexts == { <<>>, <<"C">>, <<"k">>, <<"a">> }

\* A paragraph: its extracted text and whether _contains_page_break holds
Paragraphs == [text : ParagraphTexts, page_break : BOOLEAN]

_check_index(idx) == idx >= Docx_max_lines_to_check

_is_start_of_chapter(text, idx) ==
    IF _check_index(idx) THEN FALSE ELSE is_chapter(text)

_is_non_chapter(text, idx) ==
    IF _check_index(idx) THEN FALSE ELSE is_not_chapter(text, metadata)

\* _process_text: the returned pair and self.non_chapter after the call
_process_text(paragraph_text, idx, flag) ==
    IF _is_start_of_chapter(paragraph_text, idx)
    THEN [processed_text |-> Docx_chapter_separator,
          current_para_index |-> 0, non_chapter |-> FALSE]
    ELSE IF _is_non_chapter(paragraph_text, idx)
    THEN [processed_text |-> <<>>,
          current_para_index |-> idx, non_chapter |-> TRUE]
    ELSE IF flag
    THEN [processed_text |-> <<>>,
          current_para_index |-> idx, non_chapter |-> flag]
    ELSE [processed_text |-> desmarten_text(paragraph_text),
          current_para_index |-> idx, non_chapter |-> flag]

PageBreaks(list) ==
    Cardinality({ i \in 1..Len(list) : list[i].page_break })

\* the page buffer a page-break paragraph leaves: kept, where the code
\* starts a new list
FlushedPage_kept(paragraph, page) == page

\* current_page after the page-break test of the loop body
FlushedPage(paragraph, page) ==
    IF paragraph.page_break THEN <<>> ELSE page

\* One iteration of the for loop of parse_file
ForParagraph ==
    /\ docx_pc = "for"
    /\ Len(paragraphs) < MaxParagraphs
    /\ \E paragraph \in Paragraphs :
          /\ paragraph.page_break => PageBreaks(paragraphs) < MaxPageBreaks
          /\ paragraphs' = Append(paragraphs, paragraph)
          /\ LET idx == IF paragraph.page_break THEN 0
                        ELSE current_para_index + 1
                 page == FlushedPage(paragraph, current_page)
                 r == _process_text(paragraph.text, idx, non_chapter)
             IN  /\ docx_chunks' =
                        IF paragraph.page_break /\ current_page # <<>>
                        THEN Append(docx_chunks,
                                    JoinWith(current_page, <<NL>>))
                        ELSE docx_chunks
                 /\ IF paragraph.text # <<>>
                    THEN /\ current_para_index' = r.current_para_index
                         /\ non_chapter' = r.non_chapter
                         /\ current_page' =
                                IF r.processed_text # <<>>
                                THEN Append(page, r.processed_text)
                                ELSE page
                    ELSE /\ current_para_index' = idx
                         /\ non_chapter' = non_chapter
                         /\ current_page' = page
    /\ UNCHANGED docx_pc
    /\ UNCHANGED notDocx

\* The paragraphs are exhausted: the last page is yielded if it has text
EndOfParagraphs ==
    /\ docx_pc = "for"
    /\ docx_pc' = "done"
    /\ docx_chunks' =
           IF current_page # <<>>
           THEN Append(docx_chunks, JoinWith(current_page, <<NL>>))
           ELSE docx_chunks
    /\ UNCHANGED <<paragraphs, current_page, current_para_index, non_chapter>>
    /\ UNCHANGED notDocx

InitDocx ==
    /\ CmpIdle /\ PdfIdle /\ OutIdle /\ DocxIdle /\ EpubIdle /\ OcrIdle
    /\ CallIdle /\ ReadIdle

NextDocx == ForParagraph \/ EndOfParagraphs

SpecDocx == InitDocx /\ [][NextDocx]_vars

-----------------------------------------------------------------------------
(* Properties of the DOCX splitter *)

Heading == [text |-> <<"C">>, page_break |-> FALSE]

Body == [text |-> <<"a">>, page_break |-> FALSE]

\* the paragraph the loop has just consumed
LastParagraph(list) == list[Len(list)]

\* the text holds two separators with only a newline between them
AdjacentSeparators(text) ==
    \E i \in 1..Len(text) :
        /\ i + 6 <= Len(text)
        /\ SubSeq(text, i, i + 6) = <<"*", "*", "*", NL, "*", "*", "*">>

\* the position of the last paragraph on its page: a page starts with the
\* document or with a page-break paragraph
PagePosition(list) ==
    LET breaks == { i \in 1..Len(list) : list[i].page_break }
    IN  IF breaks = {} THEN Len(list)
        ELSE Len(list) - (CHOOSE i \in breaks : \A j \in breaks : j <= i) + 1

\* C12 (as claimed): the paragraphs heading, body, heading, body with no
\* page break convert to the first body, a newline, the separator, a
\* newline, the second body, with nothing before the first body.
C12_HeadingBodyTwice ==
    (docx_pc = "done" /\ paragraphs = <<Heading, Body, Heading, Body>>) =>
        Docx_return_string(docx_chunks) =
            <<"a", NL, "*", "*", "*", NL, "a">>

\* C13 (as claimed): the DOCX output never holds two chapter separators
\* with no body text between them.
C13_SeparatorsCollapsed ==
    docx_pc = "done" => ~AdjacentSeparators(Docx_return_string(docx_chunks))

\* C14 (as claimed): an ordinary non-empty paragraph that carries a page
\* break is emitted, the suppression flag being on or off.
C14_PageBreakEndsSuppression ==
    [][ ( /\ paragraphs' # paragraphs
          /\ LastParagraph(paragraphs').page_break
          /\ LastParagraph(paragraphs').text = <<"a">> )
        => current_page' = << <<"a">> >> ]_vars

\* C15 (as claimed): a chapter heading that is the k-th paragraph of its
\* page, k from 1 to 6, is detected: the separator is appended and the
\* suppression flag cleared; the first page is no exception.
C15_WindowOfSix ==
    [][ ( /\ paragraphs' # paragraphs
          /\ is_chapter(LastParagraph(paragraphs').text)
          /\ PagePosition(paragraphs') <= Docx_max_lines_to_check )
        => /\ current_page' # <<>>
           /\ LastParagraph(current_page') = Docx_chapter_separator
           /\ non_chapter' = FALSE ]_vars

\* C16: a page-break paragraph yields the page buffer as one chunk exactly
\* when the buffer is not empty, sets the paragraph counter to 0 and puts
\* its own text on the new page; no other paragraph yields; after the last
\* paragraph a non-empty buffer is yielded once and nothing is yielded
\* after that.
C16_PageBreakFlush ==
    [][ /\ paragraphs' # paragraphs =>
            LET paragraph == LastParagraph(paragraphs')
            IN  IF paragraph.page_break
                THEN /\ docx_chunks' =
                            IF current_page # <<>>
                            THEN Append(docx_chunks,
                                        JoinWith(current_page, <<NL>>))
                            ELSE docx_chunks
                     /\ current_para_index' = 0
                     /\ current_page' \in
                            { <<>>, <<Docx_chapter_separator>>,
                              <<desmarten_text(paragraph.text)>> }
                     /\ paragraph.text = <<>> => current_page' = <<>>
                ELSE docx_chunks' = docx_chunks
        /\ (docx_pc = "for" /\ docx_pc' = "done") =>
               docx_chunks' =
                   IF current_page # <<>>
                   THEN Append(docx_chunks, JoinWith(current_page, <<NL>>))
                   ELSE docx_chunks
        /\ docx_pc = "done" => docx_chunks' = docx_chunks ]_vars

\* a page break on an empty buffer yields nothing, the next one yields the
\* page, and its own body text ends in the last chunk
C16_Witness ==
    /\ docx_pc = "done"
    /\ paragraphs = << [text |-> <<"a">>, page_break |-> TRUE],
                       [text |-> <<"a">>, page_break |-> TRUE] >>
    /\ docx_chunks = << <<"a">>, <<"a">> >>

-----------------------------------------------------------------------------
(* EPUB: epub_conversion/epub_converter.py, parse_file and                 *)
(* _process_chapter_text                                                   *)

\* Text elements of one item
MaxElements == 8

\* self.max_lines_to_check of EpubConverter
Epub_max_lines_to_check == 6

\* What extract_text / get_text give for an element: body text, a chapter
\* heading, a keyword, a chapter heading with a keyword among its words
ElementTexts == { <<"a">>, <<"C">>, <<"k">>, <<"C", " ", "k">> }

ElementLists == UNION { [1..n -> ElementTexts] : n \in 0..MaxElements }

\* An item of the book: item.get_type(), item.file_name and the elements
\* soup.find_all(TEXT_ELEMENTS) finds in its content
Items == [type : {"ITEM_DOCUMENT", "ITEM_IMAGE"},
          file_name : { <<"a">>, <<"k">> },
          elements : ElementLists]

\* a keyword test that never matches
any_word_in_NOT_CHAPTER_never(text) == FALSE

\* any(word in NOT_CHAPTER for word in text.split())
any_word_in_NOT_CHAPTER(text) ==
    \E i \in 1..Len(SplitWords(text)) : SplitWords(text)[i] \in NOT_CHAPTER

\* the whole list in place of its first max_lines_to_check elements
ScannedElements_all(elements) == elements

\* elements[: self.max_lines_to_check]
ScannedElements(elements) ==
    SubSeq(elements, 1,
           IF Len(elements) < Epub_max_lines_to_check THEN Len(elements)
           ELSE Epub_max_lines_to_check)

\* tag.get_text().strip() for tag in elements[starting_line:]
StrippedTexts(elements, starting_line) ==
    [ k \in 1..(Len(elements) - starting_line) |->
          StripChars(elements[starting_line + k], Whitespace) ]

RECURSIVE ScanFrom(_, _)
\* the for loop of _process_chapter_text from the element of 0-based index i
ScanFrom(elements, i) ==
    IF i >= Len(ScannedElements(elements)) THEN <<>>
    ELSE IF any_word_in_NOT_CHAPTER(elements[i + 1]) THEN <<>>
    ELSE IF is_chapter(elements[i + 1])
    THEN JoinWith(StrippedTexts(elements, i + 1), <<NL>>)
    ELSE ScanFrom(elements, i + 1)

_process_chapter_text(elements) == ScanFrom(elements, 0)

\* parse_file on the item: the filter on type and file name, the chapter
\* text, the chunk yielded when the text is not empty
ParseItem ==
    /\ epub_pc = "item"
    /\ epub_pc' = "done"
    /\ IF item.type = "ITEM_DOCUMENT"
          /\ ~is_not_chapter(lower(item.file_name), metadata)
       THEN /\ chapter_text' = _process_chapter_text(item.elements)
            /\ epub_chunks' =
                   IF chapter_text' # <<>>
                   THEN Append(epub_chunks, desmarten_text(chapter_text'))
                   ELSE epub_chunks
       ELSE UNCHANGED <<chapter_text, epub_chunks>>
    /\ UNCHANGED item
    /\ UNCHANGED notEpub

InitEpub ==
    /\ CmpIdle /\ PdfIdle /\ OutIdle /\ DocxIdle /\ OcrIdle /\ CallIdle /\ ReadIdle
    /\ epub_pc = "item"
    /\ item \in Items
    /\ chapter_text = "none"
    /\ epub_chunks = <<>>

NextEpub == ParseItem

SpecEpub == InitEpub /\ [][NextEpub]_vars

-----------------------------------------------------------------------------
(* Properties of the EPUB splitter *)

\* the item passed the filter of parse_file and was scanned
Scanned == epub_pc = "done" /\ chapter_text # "none"

\* 1-based positions of the scan window
WindowPositions ==
    { i \in 1..Len(item.elements) : i <= Epub_max_lines_to_check }

KeywordAt(i) ==
    \E w \in 1..Len(SplitWords(item.elements[i])) :
        SplitWords(item.elements[i])[w] \in NOT_CHAPTER

\* the first chapter heading of the list is at position i
FirstHeadingAt(i) ==
    /\ is_chapter(item.elements[i])
    /\ \A k \in 1..(i - 1) : ~is_chapter(item.elements[k])

\* the texts of the elements after position i, one per line
TextsAfter(i) ==
    JoinWith([ k \in 1..(Len(item.elements) - i) |-> item.elements[i + k] ],
             <<NL>>)

\* C17 (as claimed): an item is discarded whenever one of its first 6
\* elements holds a keyword, before or after a chapter heading.
C17_KeywordAnywhereDiscards ==
    (epub_pc = "done" /\ \E j \in WindowPositions : KeywordAt(j)) =>
        epub_chunks = <<>>

\* C17 (amended): an item is discarded whenever one of its first 6
\* elements holds a keyword and no chapter heading stands before that
\* element.
C17_KeywordBeforeHeadingDiscards ==
    ( /\ epub_pc = "done"
      /\ \E j \in WindowPositions :
            /\ KeywordAt(j)
            /\ \A k \in 1..(j - 1) : ~is_chapter(item.elements[k]) ) =>
        epub_chunks = <<>>

\* a scanned item with a keyword before its heading, discarded
C17_Witness ==
    /\ Scanned
    /\ item.elements = << <<"a">>, <<"k">>, <<"C">>, <<"a">> >>
    /\ chapter_text = <<>>
    /\ epub_chunks = <<>>

NoHeadingInWindow ==
    \A i \in WindowPositions : ~is_chapter(item.elements[i])

\* the chapter text and the chunk are the texts after position i
BodyAfter(i) ==
    /\ chapter_text = TextsAfter(i)
    /\ epub_chunks = IF TextsAfter(i) = <<>> THEN <<>>
                     ELSE << desmarten_text(TextsAfter(i)) >>

\* C18 (as claimed): an item with no chapter heading among its first 6
\* elements yields no chunk; when the first heading is at position i of the
\* window and no keyword element precedes it, the chunk is the texts of the
\* elements after position i, in order.
C18_BodyAfterHeading ==
    /\ (epub_pc = "done" /\ NoHeadingInWindow) => epub_chunks = <<>>
    /\ Scanned =>
          \A i \in WindowPositions :
              ( /\ FirstHeadingAt(i)
                /\ \A k \in 1..(i - 1) : ~KeywordAt(k) ) => BodyAfter(i)

\* C18 (amended): the same, for a heading element that holds no keyword
\* among its own words.
C18_BodyAfterCleanHeading ==
    /\ (epub_pc = "done" /\ NoHeadingInWindow) => epub_chunks = <<>>
    /\ Scanned =>
          \A i \in WindowPositions :
              ( /\ FirstHeadingAt(i)
                /\ \A k \in 1..i : ~KeywordAt(k) ) => BodyAfter(i)

\* a heading in second position and the two elements after it as the chunk
C18_Witness ==
    /\ Scanned
    /\ item.elements = << <<"a">>, <<"C">>, <<"a">>, <<"a">> >>
    /\ epub_chunks = << <<"a", NL, "a">> >>

-----------------------------------------------------------------------------
(* Properties of EpubConverter.return_string *)

RECURSIVE CountOf(_, _)
\* str.count(sep): occurrences of sep in text that do not overlap
CountOf(text, sep) ==
    IF Len(text) < Len(sep) THEN 0
    ELSE IF StartsWith(text, sep)
    THEN 1 + CountOf(SubSeq(text, Len(sep) + 1, Len(text)), sep)
    ELSE CountOf(Tail(text), sep)

-----------------------------------------------------------------------------
(* OCR: ocr.py, run_ocr *)

\* the four refusal phrases
GPT_REFUSALS == { <<"R1">>, <<"R2">>, <<"R3">>, <<"R4">> }

\* the literal of `if retry > 2`
RetryLimit == 2

\* response.choices[0].message.content of an answer that has content
Answers == { <<"R1">>, <<"R2">>, <<"a", "R3">>, <<"R4", "a">>, <<"a">>,
             <<"N">> }

\* What client.chat.completions.create does: it returns an answer with
\* content, returns a response with no choices or no content, or raises
Responses ==
    [kind : {"answer"}, content : Answers]
        \cup { [kind |-> "no_content", content |-> <<>>],
               [kind |-> "exception", content |-> <<>>] }

\* any(refusal in answer for refusal in GPT_REFUSALS)
is_refusal(answer) == \E refusal \in GPT_REFUSALS : Contains(answer, refusal)

clean_response(answer) ==
    IF answer = <<"N">> THEN <<>>
    ELSE IF is_refusal(answer) THEN <<>>
    ELSE answer

\* a retry test that never gives up
retries_exhausted_never(n) == FALSE

\* retry > 2
retries_exhausted(n) == n > RetryLimit

\* an except clause for NoResponseError alone
except_NoResponseError(exc) == exc = "NoResponseError"

\* `except Exception` catches NoResponseError and whatever create raises
except_Exception(exc) == exc \in {"NoResponseError", "Exception"}

\* run_ocr is entered: without images it returns "" at once
EnterRunOcr ==
    /\ ocr_pc = "entry"
    /\ IF base64_images = <<>>
       THEN ocr_result' = <<>> /\ ocr_pc' = "returned"
       ELSE ocr_result' = ocr_result /\ ocr_pc' = "create"
    /\ UNCHANGED <<base64_images, retry, responses, ocr_exception>>
    /\ UNCHANGED notOcr

\* the try block: one call of the service and what follows from its
\* response, up to a return, a raise or the recursive call
CreateCompletion ==
    /\ ocr_pc = "create"
    /\ \E response \in Responses :
          /\ responses' = Append(responses, response)
          /\ CASE response.kind = "exception" ->
                    /\ ocr_exception' = "Exception"
                    /\ ocr_pc' = "except"
                    /\ UNCHANGED <<retry, ocr_result>>
               [] response.kind = "no_content" ->
                    /\ ocr_exception' = "NoResponseError"
                    /\ ocr_pc' = "except"
                    /\ UNCHANGED <<retry, ocr_result>>
               [] response.kind = "answer" /\ is_refusal(response.content)
                                           /\ retries_exhausted(retry) ->
                    /\ ocr_exception' = "NoResponseError"
                    /\ ocr_pc' = "except"
                    /\ UNCHANGED <<retry, ocr_result>>
               [] response.kind = "answer" /\ is_refusal(response.content)
                                           /\ ~retries_exhausted(retry) ->
                    /\ retry' = retry + 1
                    /\ ocr_pc' = "create"
                    /\ UNCHANGED <<ocr_exception, ocr_result>>
               [] response.kind = "answer" /\ ~is_refusal(response.content) ->
                    /\ ocr_result' = clean_response(response.content)
                    /\ ocr_pc' = "returned"
                    /\ UNCHANGED <<retry, ocr_exception>>
    /\ UNCHANGED base64_images
    /\ UNCHANGED notOcr

\* the except clause: a caught exception is logged and "" returned, through
\* every frame of the recursion; any other exception leaves run_ocr
ExceptClause ==
    /\ ocr_pc = "except"
    /\ IF except_Exception(ocr_exception)
       THEN /\ ocr_result' = <<>>
            /\ ocr_exception' = "none"
            /\ ocr_pc' = "returned"
       ELSE /\ ocr_pc' = "raised"
            /\ UNCHANGED <<ocr_result, ocr_exception>>
    /\ UNCHANGED <<base64_images, retry, responses>>
    /\ UNCHANGED notOcr

InitOcr ==
    /\ CmpIdle /\ PdfIdle /\ OutIdle /\ DocxIdle /\ EpubIdle /\ CallIdle /\ ReadIdle
    /\ ocr_pc = "entry"
    /\ base64_images \in { <<>>, <<"image">>, <<"image", "image">> }
    /\ retry = 0
    /\ responses = <<>>
    /\ ocr_exception = "none"
    /\ ocr_result = "none"

NextOcr == EnterRunOcr \/ CreateCompletion \/ ExceptClause

SpecOcr == InitOcr /\ [][NextOcr]_vars

\* the service answered with a refusal
Refused(response) == response.kind = "answer" /\ is_refusal(response.content)

\* C20: run_ocr calls the service at most 4 times, calls it again only
\* after a refusal, makes no call after it has returned, returns "" when
\* all 4 responses are refusals, and no exception leaves it.
C20_BoundedRetries ==
    /\ Len(responses) <= RetryLimit + 2
    /\ \A i \in 1..(Len(responses) - 1) : Refused(responses[i])
    /\ retry <= RetryLimit + 1
    /\ ocr_pc # "raised"
    /\ ocr_pc = "returned" =>
          /\ ocr_result # "none"
          /\ ocr_exception = "none"
          /\ (Len(responses) >= 1 /\ ~Refused(responses[Len(responses)])) =>
                Len(responses) = retry + 1
          /\ (\A i \in 1..Len(responses) : Refused(responses[i])) =>
                ocr_result = <<>>
    /\ (ocr_pc = "returned" /\ Len(responses) >= 1
          /\ Refused(responses[Len(responses)])) =>
             Len(responses) = RetryLimit + 2

\* four refusals, then the empty string
C20_Witness ==
    /\ ocr_pc = "returned"
    /\ Len(responses) = 4
    /\ \A i \in 1..4 : Refused(responses[i])
    /\ ocr_result = <<>>

\* the service raised, or answered without choices or content
Failed(response) == response.kind \in {"exception", "no_content"}

\* C21: no exception leaves run_ocr; a service call that raises or answers
\* without choices or content is the last call and run_ocr returns "", so
\* a failure of the first call means exactly one call; with no images
\* run_ocr returns "" and the service is never called.
C21_EmptyOnFailure ==
    /\ ocr_pc # "raised"
    /\ base64_images = <<>> => responses = <<>>
    /\ (ocr_pc = "returned" /\ base64_images = <<>>) => ocr_result = <<>>
    /\ \A i \in 1..Len(responses) :
          Failed(responses[i]) => i = Len(responses)
    /\ (ocr_pc = "returned" /\ responses # <<>>
          /\ Failed(responses[Len(responses)])) => ocr_result = <<>>
    /\ (ocr_pc = "returned" /\ responses # <<>> /\ Failed(responses[1])) =>
          Len(responses) = 1

\* the service raised on the first call and run_ocr returned ""
C21_Witness ==
    /\ ocr_pc = "returned"
    /\ responses = << [kind |-> "exception", content |-> <<>>] >>
    /\ ocr_result = <<>>

-----------------------------------------------------------------------------
(* SpecIsChapter: is_chapter applied to a line with and without the        *)
(* whitespace around it.  The numerals and number words are spelled in     *)
(* their own letters; "C" stays the word "chapter".                        *)

MaxLeadingSpaces == 3

\* lines without whitespace around them
TrimmedLines ==
    { <<>>, <<"C">>, <<"C", " ", "X", "I", "V">>, <<"C", " ", "9">>,
      <<"9">>, <<"9", "9">>, <<"X", "I", "V">>, <<"i", "x">>,
      <<"I", "I", "I", "I">>,
      <<"o", "n", "e">>, <<"T", "w", "e", "n", "t", "y">>,
      <<"s", "e", "v", "e", "n", "t", "y", "-", "f", "i", "v", "e">>,
      <<"s", "e", "v", "e", "n", "t", "y", " ", "f", "i", "v", "e">>,
      <<"a">>, <<"a", " ", "9">>, <<"k">>, <<"T">>, <<"-">> }

RECURSIVE Spaces(_)
Spaces(n) == IF n = 0 THEN <<>> ELSE <<" ">> \o Spaces(n - 1)

\* a line as it stands in a file: indented, and with or without its
\* line terminator
FileLines ==
    { Spaces(n) \o line \o end :
        n \in 0..MaxLeadingSpaces, line \in TrimmedLines, end \in {<<>>, <<NL>>} }

InitIsChapter ==
    /\ CmpIdle /\ PdfIdle /\ OutIdle /\ DocxIdle /\ EpubIdle /\ OcrIdle
    /\ ReadIdle
    /\ call_pc = "call"
    /\ call_function = "is_chapter"
    /\ call_args \in { <<s>> : s \in FileLines }
    /\ call_return = "none"

Call_is_chapter ==
    /\ call_function = "is_chapter"
    /\ call_pc = "call"
    /\ call_pc' = "done"
    /\ call_return' = Returns(is_chapter(call_args[1]))
    /\ UNCHANGED <<call_function, call_args>>
    /\ UNCHANGED notCall

NextIsChapter == Call_is_chapter

SpecIsChapter == InitIsChapter /\ [][NextIsChapter]_vars

\* the line without the whitespace around it
Trimmed(s) == StripChars(s, Whitespace)

\* C22: is_chapter gives a line with leading spaces or a line terminator
\* the answer it gives the line without them.
C22_WhitespaceIgnored ==
    (call_function = "is_chapter" /\ call_pc = "done") =>
        call_return.value = is_chapter(Trimmed(call_args[1]))

-----------------------------------------------------------------------------
(* SpecRoman: roman_to_int applied to every string of up to MaxNumeralLen  *)
(* characters, and to the numerals of the tests.  The characters are the   *)
(* letters themselves: "C" is the numeral for 100 here.                    *)

MaxNumeralLen == 4

\* the seven numerals, a lower-case one and a letter that is no numeral
NumeralCharacters == {"I", "V", "X", "L", "C", "D", "M", "i", "A"}

RECURSIVE StringsUpTo(_, _)
\* the strings of at most n characters of the set chars
StringsUpTo(chars, n) ==
    IF n = 0 THEN {<<>>}
    ELSE LET shorter == StringsUpTo(chars, n - 1)
         IN  shorter \cup {<<c>> \o t : c \in chars, t \in shorter}

RomanArguments ==
    StringsUpTo(NumeralCharacters, MaxNumeralLen)
        \cup { <<"L", "V", "I", "I", "I">>,
               <<"M", "C", "M", "X", "C", "I", "V">>,
               <<"M", "M", "M", "C", "M", "X", "C", "I", "X">>,
               <<"M", "C", "M", "X", "C", "I", "X">> }

InitRoman ==
    /\ CmpIdle /\ PdfIdle /\ OutIdle /\ DocxIdle /\ EpubIdle /\ OcrIdle
    /\ ReadIdle
    /\ call_pc = "call"
    /\ call_function = "roman_to_int"
    /\ call_args \in { <<s>> : s \in RomanArguments }
    /\ call_return = "none"

Call_roman_to_int ==
    /\ call_function = "roman_to_int"
    /\ call_pc = "call"
    /\ call_pc' = "done"
    /\ call_return' = roman_to_int(call_args[1])
    /\ UNCHANGED <<call_function, call_args>>
    /\ UNCHANGED notCall

NextRoman == Call_roman_to_int

SpecRoman == InitRoman /\ [][NextRoman]_vars

\* the canonical numeral of n in 1..3999, digit by digit
UnitNumerals ==
    << <<>>,
       <<"I">>,
       <<"I", "I">>,
       <<"I", "I", "I">>,
       <<"I", "V">>,
       <<"V">>,
       <<"V", "I">>,
       <<"V", "I", "I">>,
       <<"V", "I", "I", "I">>,
       <<"I", "X">> >>

TenNumerals ==
    << <<>>,
       <<"X">>,
       <<"X", "X">>,
       <<"X", "X", "X">>,
       <<"X", "L">>,
       <<"L">>,
       <<"L", "X">>,
       <<"L", "X", "X">>,
       <<"L", "X", "X", "X">>,
       <<"X", "C">> >>

HundredNumerals ==
    << <<>>,
       <<"C">>,
       <<"C", "C">>,
       <<"C", "C", "C">>,
       <<"C", "D">>,
       <<"D">>,
       <<"D", "C">>,
       <<"D", "C", "C">>,
       <<"D", "C", "C", "C">>,
       <<"C", "M">> >>

ThousandNumerals ==
    << <<>>,
       <<"M">>,
       <<"M", "M">>,
       <<"M", "M", "M">> >>

CanonicalNumeral(n) ==
    ThousandNumerals[(n \div 1000) + 1]
        \o HundredNumerals[((n \div 100) % 10) + 1]
        \o TenNumerals[((n \div 10) % 10) + 1]
        \o UnitNumerals[(n % 10) + 1]

IsCanonical(roman) == \E n \in 1..3999 : CanonicalNumeral(n) = roman

RomanDone == call_function = "roman_to_int" /\ call_pc = "done"

\* C23: roman_to_int returns a value exactly for the canonical numerals of
\* 1..3999 (in either letter case), and the value is the numeral's; every
\* other string is signalled invalid.
C23_OnlyCanonicalNumerals ==
    RomanDone =>
        IF call_return.exc = "none"
        THEN /\ call_return.value \in 1..3999
             /\ CanonicalNumeral(call_return.value) = upper(call_args[1])
        ELSE /\ call_return.exc = "ValueError"
             /\ ~IsCanonical(upper(call_args[1]))

\* the numeral a may stand before the larger numeral b
CanonicalPair(a, b) ==
    \/ a = "I" /\ b \in {"V", "X"}
    \/ a = "X" /\ b \in {"L", "C"}
    \/ a = "C" /\ b \in {"D", "M"}

\* one of the five defects, read on the upper-cased input as roman_to_int
\* reads it
Defective(roman) ==
    \/ roman = <<>>
    \/ \E i \in 1..Len(roman) : roman[i] \notin DOMAIN ROMAN_NUMERALS
    \/ \E numeral \in {"V", "L", "D"} : count(roman, numeral) > 1
    \/ \E i \in 1..(Len(roman) - 3) :
          \A j \in 1..3 : roman[i + j] = roman[i]
    \/ \E i \in 1..(Len(roman) - 1) :
          /\ roman[i] \in DOMAIN ROMAN_NUMERALS
          /\ roman[i + 1] \in DOMAIN ROMAN_NUMERALS
          /\ ROMAN_NUMERALS[roman[i]] < ROMAN_NUMERALS[roman[i + 1]]
          /\ ~CanonicalPair(roman[i], roman[i + 1])

\* C24: roman_to_int signals invalid for every input that is empty, holds a
\* character that is no numeral, holds V, L or D twice, repeats a character
\* more than three times in a row, or holds an adjacent smaller-before-larger
\* pair other than I before V/X, X before L/C, C before D/M (letters read
\* without regard to case).
C24_DefectsRejected ==
    (RomanDone /\ Defective(upper(call_args[1]))) =>
        call_return.exc = "ValueError"

\* V before X was rejected
C24_Witness ==
    /\ RomanDone
    /\ call_args = << <<"V", "X">> >>
    /\ call_return.exc = "ValueError"

-----------------------------------------------------------------------------
(* SpecWords: word_to_num applied to the English spelling of every number  *)
(* from 0 to 99 and to every concatenation of up to MaxNumberWords pieces. *)
(* The characters are the letters themselves.                              *)

MaxNumberWords == 3

\* the spellings of 0..19
SmallNumbers ==
    << <<"z", "e", "r", "o">>,
       <<"o", "n", "e">>,
       <<"t", "w", "o">>,
       <<"t", "h", "r", "e", "e">>,
       <<"f", "o", "u", "r">>,
       <<"f", "i", "v", "e">>,
       <<"s", "i", "x">>,
       <<"s", "e", "v", "e", "n">>,
       <<"e", "i", "g", "h", "t">>,
       <<"n", "i", "n", "e">>,
       <<"t", "e", "n">>,
       <<"e", "l", "e", "v", "e", "n">>,
       <<"t", "w", "e", "l", "v", "e">>,
       <<"t", "h", "i", "r", "t", "e", "e", "n">>,
       <<"f", "o", "u", "r", "t", "e", "e", "n">>,
       <<"f", "i", "f", "t", "e", "e", "n">>,
       <<"s", "i", "x", "t", "e", "e", "n">>,
       <<"s", "e", "v", "e", "n", "t", "e", "e", "n">>,
       <<"e", "i", "g", "h", "t", "e", "e", "n">>,
       <<"n", "i", "n", "e", "t", "e", "e", "n">> >>

\* the spellings of 20, 30, .., 90
TensNumbers ==
    << <<"t", "w", "e", "n", "t", "y">>,
       <<"t", "h", "i", "r", "t", "y">>,
       <<"f", "o", "r", "t", "y">>,
       <<"f", "i", "f", "t", "y">>,
       <<"s", "i", "x", "t", "y">>,
       <<"s", "e", "v", "e", "n", "t", "y">>,
       <<"e", "i", "g", "h", "t", "y">>,
       <<"n", "i", "n", "e", "t", "y">> >>

\* n in 0..99 spelled in lower case, sep between the tens and the units
Spelling(n, sep) ==
    IF n < 20 THEN SmallNumbers[n + 1]
    ELSE IF n % 10 = 0 THEN TensNumbers[(n \div 10) - 1]
    ELSE TensNumbers[(n \div 10) - 1] \o sep \o SmallNumbers[(n % 10) + 1]

Separators == { <<>>, <<" ">>, <<"-">> }

Spellings ==
    { Spelling(n, sep) : n \in 0..99, sep \in Separators }

\* number words, a separator, "teen" and two words that are no numbers
Pieces ==
    { <<"o", "n", "e">>, <<"t", "w", "o">>, <<"t", "e", "n">>,
      <<"t", "e", "e", "n">>, <<"t", "w", "e", "n", "t", "y">>,
      <<"t", "h", "i", "r", "t", "y">>, <<"h", "u", "n", "d", "r", "e", "d">>,
      <<"a", "b", "c">>, <<"-">> }

RECURSIVE Concatenations(_, _)
\* the concatenations of at most n elements of the set pieces
Concatenations(pieces, n) ==
    IF n = 0 THEN {<<>>}
    ELSE LET shorter == Concatenations(pieces, n - 1)
         IN  shorter \cup {piece \o t : piece \in pieces, t \in shorter}

WordArguments ==
    Spellings \cup {upper(s) : s \in Spellings}
        \cup Concatenations(Pieces, MaxNumberWords)

InitWords ==
    /\ CmpIdle /\ PdfIdle /\ OutIdle /\ DocxIdle /\ EpubIdle /\ OcrIdle
    /\ ReadIdle
    /\ call_pc = "call"
    /\ call_function = "word_to_num"
    /\ call_args \in { <<s>> : s \in WordArguments }
    /\ call_return = "none"

Call_word_to_num ==
    /\ call_function = "word_to_num"
    /\ call_pc = "call"
    /\ call_pc' = "done"
    /\ call_return' = word_to_num(call_args[1])
    /\ UNCHANGED <<call_function, call_args>>
    /\ UNCHANGED notCall

NextWords == Call_word_to_num

SpecWords == InitWords /\ [][NextWords]_vars

WordsDone == call_function = "word_to_num" /\ call_pc = "done"

\* C25: word_to_num returns n for the spelling of every n in 0..99, written
\* solid, with a space or with a hyphen, in lower or upper case.
C25_EveryNumberSpelled ==
    WordsDone =>
        \A n \in 0..99 : \A sep \in Separators :
            lower(call_args[1]) = Spelling(n, sep) =>
                call_return = Returns(n)

\* a single number word, or a tens word followed by the word of 1..9, once
\* case, spaces and hyphens are removed
WellFormed(number_string) ==
    \E n \in 0..99 :
        remove(remove(lower(number_string), "-"), " ") = Spelling(n, <<>>)

\* C26: word_to_num signals invalid for every input that is not a single
\* number word or a tens word followed by one units word.
C26_OnlyNumberWords ==
    (WordsDone /\ ~WellFormed(call_args[1])) =>
        call_return.exc = "ValueError"

-----------------------------------------------------------------------------
(* SpecMetadata: is_not_chapter and check_line called with metadata that   *)
(* holds both, one or none of the keys 'title' and 'author'.               *)

\* the metadata dictionaries
Metadatas ==
    { metadata, [title |-> metadata.title], [author |-> metadata.author],
      <<>> }

\* the texts classified
ClassifiedTexts ==
    { <<>>, <<"T">>, <<"W">>, <<"k">>, <<"C">>, <<"9">>, <<"a">>,
      <<"T", " ", "a">>, <<"a", " ", "T">>, <<"a", " ", "W">>,
      <<"k", " ", "a">>, <<"a", " ", "k">>,
      <<"C", " ", "T">>, <<"k", " ", "T">>, <<"t">>, <<"t", "e", "n">>,
      no_title_found, no_author_found,
      no_title_found \o <<" ", "a">>, no_author_found \o <<" ", "a">> }

InitMetadata ==
    /\ CmpIdle /\ PdfIdle /\ OutIdle /\ DocxIdle /\ EpubIdle /\ OcrIdle
    /\ ReadIdle
    /\ call_pc = "call"
    /\ call_function \in {"is_not_chapter", "check_line"}
    /\ call_args \in { <<text, md>> : text \in ClassifiedTexts, md \in Metadatas }
    /\ call_return = "none"

Call_is_not_chapter ==
    /\ call_function = "is_not_chapter"
    /\ call_pc = "call"
    /\ call_pc' = "done"
    /\ call_return' = Returns(is_not_chapter(call_args[1], call_args[2]))
    /\ UNCHANGED <<call_function, call_args>>
    /\ UNCHANGED notCall

Call_check_line ==
    /\ call_function = "check_line"
    /\ call_pc = "call"
    /\ call_pc' = "done"
    /\ call_return' =
          IF KeyError_in_is_header(call_args[1], call_args[2])
          THEN Raises("KeyError")
          ELSE Returns(check_line(call_args[1], call_args[2]))
    /\ UNCHANGED <<call_function, call_args>>
    /\ UNCHANGED notCall

NextMetadata == Call_is_not_chapter \/ Call_check_line

SpecMetadata == InitMetadata /\ [][NextMetadata]_vars

\* C27: with neither 'title' nor 'author' in the metadata, is_not_chapter is
\* true exactly of the texts that start with a keyword of NOT_CHAPTER.
C27_KeywordsOnly ==
    (/\ call_function = "is_not_chapter"
     /\ call_pc = "done"
     /\ DOMAIN call_args[2] = {}) =>
        (call_return.value <=>
            \E not_chapter_word \in NOT_CHAPTER :
                StartsWith(call_args[1], not_chapter_word))

\* C28: with 'title' or 'author' missing from the metadata, check_line
\* raises nothing and does not return HEADER.
C28_MissingKeysAccepted ==
    (/\ call_function = "check_line"
     /\ call_pc = "done"
     /\ DOMAIN call_args[2] # {"title", "author"}) =>
        /\ call_return.exc = "none"
        /\ call_return.value # "HEADER"

-----------------------------------------------------------------------------
(* SpecAddLine: _add_line_to_page applied to every line of up to           *)
(* MaxLineLen characters, on an empty and on a non-empty page buffer.      *)

MaxLineLen == 3

\* a letter, the sentence punctuation, a comma, the quotes and whitespace
LineCharacters == {"a", ".", "!", "?", ",", "\"", "'", " ", NL}

PageBuffers == { <<>>, << <<"a">> >>, << <<"a", ".", NL>> >> }

InitAddLine ==
    /\ CmpIdle /\ PdfIdle /\ OutIdle /\ DocxIdle /\ EpubIdle /\ OcrIdle
    /\ ReadIdle
    /\ call_pc = "call"
    /\ call_function = "_add_line_to_page"
    /\ call_args \in { <<buf, line>> :
                         buf \in PageBuffers,
                         line \in StringsUpTo(LineCharacters, MaxLineLen) }
    /\ call_return = "none"

\* the call returns None; the value recorded is self._page after the call
Call_add_line_to_page ==
    /\ call_function = "_add_line_to_page"
    /\ call_pc = "call"
    /\ call_pc' = "done"
    /\ call_return' = Returns(_add_line_to_page(call_args[1], call_args[2]))
    /\ UNCHANGED <<call_function, call_args>>
    /\ UNCHANGED notCall

NextAddLine == Call_add_line_to_page

SpecAddLine == InitAddLine /\ [][NextAddLine]_vars

\* the line without its trailing whitespace
WithoutTrailing(line) == RStripChars(line, Whitespace)

\* the text ends in '.', '!' or '?', or in one of them and a double quote
EndsSentence(text) ==
    LET n == Len(text)
    IN  \/ n >= 1 /\ text[n] \in {".", "!", "?"}
        \/ n >= 2 /\ text[n] = "\"" /\ text[n - 1] \in {".", "!", "?"}

\* C29: _add_line_to_page appends the line without its trailing whitespace
\* and followed by a newline if, trailing whitespace ignored, the line ends
\* in '.', '!', '?' or one of them followed by a double quote; it appends any
\* other line as it is, with no break added.
C29_BreakAfterSentence ==
    (call_function = "_add_line_to_page" /\ call_pc = "done") =>
        LET buf == call_args[1]
            line == call_args[2]
        IN  call_return.value =
                Append(buf, IF EndsSentence(WithoutTrailing(line))
                            THEN WithoutTrailing(line) \o <<NL>>
                            ELSE line)

\* a sentence followed by a space got its break, after a line that had none
C29_Witness ==
    /\ call_function = "_add_line_to_page"
    /\ call_pc = "done"
    /\ call_args = << << <<"a">> >>, <<"a", ".", " ">> >>
    /\ call_return.value = << <<"a">>, <<"a", ".", NL>> >>

-----------------------------------------------------------------------------
(* SpecCleanText: clean_text and parse_text_file of text_conversion.py     *)
(* applied to every text of up to MaxTextPieces pieces.                    *)

MaxTextPieces == 4

\* the default of the parameter chapter_break
chapter_break == <<"*", "*", "*", NL>>

RECURSIVE skip_breaks(_, _)
\* the text after the breaks that (?:break)+ matches at its start
skip_breaks(full_text, break) ==
    IF StartsWith(full_text, break)
    THEN skip_breaks(SubSeq(full_text, Len(break) + 1, Len(full_text)), break)
    ELSE full_text

RECURSIVE clean_chapter_breaks(_, _)
\* re.sub("(?:break)+", break, full_text): from the left, every maximal run
\* of breaks becomes one break
clean_chapter_breaks(full_text, break) ==
    IF full_text = <<>> THEN <<>>
    ELSE IF StartsWith(full_text, break)
    THEN break \o clean_chapter_breaks(skip_breaks(full_text, break), break)
    ELSE <<Head(full_text)>> \o clean_chapter_breaks(Tail(full_text), break)

remove_leading_chapter_breaks(full_text, break) ==
    IF StartsWith(full_text, break)
    THEN SubSeq(full_text, Len(break) + 1, Len(full_text))
    ELSE full_text

RECURSIVE last_of_runs(_)
\* re.sub(r"(\s)+", r"\1", text): the group holds the last character it
\* matched, so every run of whitespace becomes its last character
last_of_runs(text) ==
    IF text = <<>> THEN <<>>
    ELSE IF /\ Head(text) \in Whitespace
            /\ Len(text) >= 2
            /\ text[2] \in Whitespace
    THEN last_of_runs(Tail(text))
    ELSE <<Head(text)>> \o last_of_runs(Tail(text))

remove_whitespace(full_text) == last_of_runs(StripChars(full_text, Whitespace))

clean_text(full_text) ==
    remove_leading_chapter_breaks(
        clean_chapter_breaks(remove_whitespace(full_text), chapter_break),
        chapter_break)

\* the list comprehension over book_lines
parsed_lines(book_lines) ==
    [i \in 1..Len(book_lines) |->
        IF is_chapter(book_lines[i]) THEN <<"*", "*", "*">>
        ELSE desmarten_text(book_lines[i])]

parse_text_file(book_content) ==
    LET book_lines == SplitOn(book_content, NL)
        book_text == JoinWith(parsed_lines(book_lines), <<NL>>)
    IN  clean_text(book_text)

\* pieces of a text handed to clean_text: body, a chapter break, a newline
\* and a space
TextPieces == { <<"a">>, chapter_break, <<NL>>, <<" ">> }

\* pieces of a book handed to parse_text_file: body, a heading, a line end
\* and a space
BookPieces == { <<"a">>, <<"C">>, <<NL>>, <<" ">> }

InitCleanText ==
    /\ CmpIdle /\ PdfIdle /\ OutIdle /\ DocxIdle /\ EpubIdle /\ OcrIdle
    /\ ReadIdle
    /\ call_pc = "call"
    /\ \/ /\ call_function = "clean_text"
          /\ call_args \in
                { <<s>> : s \in Concatenations(TextPieces, MaxTextPieces) }
       \/ /\ call_function = "parse_text_file"
          /\ call_args \in
                { <<s>> : s \in Concatenations(BookPieces, MaxTextPieces) }
    /\ call_return = "none"

Call_clean_text ==
    /\ call_function = "clean_text"
    /\ call_pc = "call"
    /\ call_pc' = "done"
    /\ call_return' = Returns(clean_text(call_args[1]))
    /\ UNCHANGED <<call_function, call_args>>
    /\ UNCHANGED notCall

Call_parse_text_file ==
    /\ call_function = "parse_text_file"
    /\ call_pc = "call"
    /\ call_pc' = "done"
    /\ call_return' = Returns(parse_text_file(call_args[1]))
    /\ UNCHANGED <<call_function, call_args>>
    /\ UNCHANGED notCall

NextCleanText == Call_clean_text \/ Call_parse_text_file

SpecCleanText == InitCleanText /\ [][NextCleanText]_vars

\* a chapter break stands at position i of the text: three asterisks, not
\* more, closed by a newline or by the end of the text
BreakAt(text, i) ==
    /\ i + 2 <= Len(text)
    /\ SubSeq(text, i, i + 2) = <<"*", "*", "*">>
    /\ i + 3 <= Len(text) => text[i + 3] = NL
    /\ i > 1 => text[i - 1] # "*"

\* two chapter breaks with nothing but whitespace between them
ConsecutiveBreaks(text) ==
    \E i, j \in 1..Len(text) :
        /\ i + 3 <= j
        /\ BreakAt(text, i)
        /\ BreakAt(text, j)
        /\ \A k \in (i + 3)..(j - 1) : text[k] \in Whitespace

\* C30: the text clean_text and parse_text_file return has no two chapter
\* breaks in a row, also not with blank lines between them or at its end,
\* and does not begin with a chapter break.
C30_BreaksCollapsed ==
    (call_function \in {"clean_text", "parse_text_file"} /\ call_pc = "done") =>
        /\ ~ConsecutiveBreaks(call_return.value)
        /\ ~BreakAt(call_return.value, 1)

-----------------------------------------------------------------------------
(* SpecRead: convert_file(save_file=True) over a source that is read one   *)
(* unit at a time.  PDFConverter._read_file and TextParser.read_line are   *)
(* generators (yield from), so a page or a line is read when the loop of   *)
(* convert_file asks parse_file for its next chunk.                        *)

MaxUnits == 3

\* what the read of a unit does: it delivers the unit, or it raises
\* PDFSyntaxError / OSError / UnicodeDecodeError
ReadOutcomes == {"unit", "error"}

\* the converters whose source is read inside parse_file
LazyConverters == {"pdf", "text"}

InitRead ==
    /\ CmpIdle /\ PdfIdle /\ DocxIdle /\ EpubIdle /\ OcrIdle /\ CallIdle
    /\ converter \in LazyConverters
    /\ yielded = <<>>
    /\ file_exists = FALSE
    /\ file_content = <<>>
    /\ result = "none"
    /\ read_pc = "for"
    /\ source \in StringsUpTo(ReadOutcomes, MaxUnits)

\* one iteration of `for content in converter.parse_file()`: the unit is
\* read, parse_file yields its chunk and the body writes it unless empty
ReadAndWrite ==
    /\ read_pc = "for"
    /\ source # <<>>
    /\ Head(source) = "unit"
    /\ \E content \in ChunksOf(converter) :
          /\ yielded' = Append(yielded, content)
          /\ IF content # <<>>
             THEN /\ file_content' = write_text(converter, content,
                                                file_exists, file_content)
                  /\ file_exists' = exists_after_write(converter, content,
                                                       file_exists)
             ELSE UNCHANGED <<file_exists, file_content>>
    /\ source' = Tail(source)
    /\ UNCHANGED <<converter, result, read_pc>>
    /\ UNCHANGED notRead

\* the read raises: the except clause of _read_file / read_line raises the
\* conversion error, which leaves parse_file and convert_file
ReadFails ==
    /\ read_pc = "for"
    /\ source # <<>>
    /\ Head(source) = "error"
    /\ read_pc' = "raised"
    /\ UNCHANGED <<source, outVars>>
    /\ UNCHANGED notRead

\* the source is exhausted: the loop ends and convert_file returns
ReadExhausted ==
    /\ read_pc = "for"
    /\ source = <<>>
    /\ read_pc' = "returned"
    /\ UNCHANGED <<source, outVars>>
    /\ UNCHANGED notRead

NextRead == ReadAndWrite \/ ReadFails \/ ReadExhausted

SpecRead == InitRead /\ [][NextRead]_vars

\* C31: when the conversion error reaches the caller, parse_file has
\* yielded no chunk and nothing has been written to the output file.
C31_NoPartialOutput ==
    read_pc = "raised" =>
        /\ yielded = <<>>
        /\ ~file_exists
        /\ file_content = <<>>

-----------------------------------------------------------------------------
(* SpecImages: PDFImageExtractor._get_image and extract_images on every    *)
(* document of MaxObjects objects.  What pdfminer and the size validation  *)
(* make of an object is its kind:                                          *)
(*    "image"    a stream of valid size, encoded as a PNG                  *)
(*    "small"    a stream for which _parse_image_data raises               *)
(*               ImageTooSmallError                                        *)
(*    "large"    a stream for which it raises ImageTooLargeError           *)
(*    "other"    an object that is no PDFStream                            *)
(*    "missing"  no such object: document.getobj raises PDFObjectNotFound  *)

MaxObjects == 3

MaxObjNums == 2

ObjectKinds == {"image", "small", "large", "other", "missing"}

\* the documents: objects 1..MaxObjects, and no object after them
Documents == [1..MaxObjects -> ObjectKinds]

\* resolve1(self.document.getobj(obj_num)), as the kind of what it gives
getobj(document, obj_num) ==
    IF obj_num \in DOMAIN document THEN document[obj_num] ELSE "missing"

\* the base64 string made of object obj_num
EncodingOf(obj_num) == <<"png", obj_num>>

\* _find_next_image: the pair (object number, attempt) it returns, or the
\* exception of getobj, which no clause around the lookup catches
_find_next_image(document, obj_num, attempt) ==
    LET next_obj == obj_num + 1
        new_attempt == attempt + 1
        obj == getobj(document, next_obj)
    IN  IF obj = "missing" THEN Raises("PDFObjectNotFound")
        ELSE IF obj \in {"image", "small", "large"}
        THEN Returns(<<next_obj, new_attempt>>)
        ELSE Returns(<<obj_num, 100>>)

\* the test `attempt > 1`
AttemptsExceeded(attempt) == attempt > 1

RECURSIVE _get_image(_, _, _)
\* _get_image: [exc, value, examined]; examined lists the objects the try
\* block resolved, in order
_get_image(document, obj_num, attempt) ==
    IF AttemptsExceeded(attempt)
    THEN [exc |-> "none", value |-> <<>>, examined |-> <<>>]
    ELSE LET obj == getobj(document, obj_num)
         IN  CASE obj = "image" ->
                    [exc |-> "none", value |-> EncodingOf(obj_num),
                     examined |-> <<obj_num>>]
               [] obj \in {"large", "other", "missing"} ->
                    \* except ImageTooLargeError / TypeError / Exception
                    [exc |-> "none", value |-> <<>>,
                     examined |-> <<obj_num>>]
               [] obj = "small" ->
                    \* except ImageTooSmallError
                    LET found == _find_next_image(document, obj_num, attempt)
                    IN  IF found.exc # "none"
                        THEN [exc |-> found.exc, value |-> "none",
                              examined |-> <<obj_num>>]
                        ELSE LET again == _get_image(document, found.value[1],
                                                     found.value[2])
                             IN  [again EXCEPT
                                    !.examined = <<obj_num>> \o @]

RECURSIVE images_of(_, _)
\* the list comprehension over obj_nums: the first exception ends it
images_of(document, obj_nums) ==
    IF obj_nums = <<>> THEN Returns(<<>>)
    ELSE LET first == _get_image(document, Head(obj_nums), 0)
         IN  IF first.exc # "none" THEN Raises(first.exc)
             ELSE LET rest == images_of(document, Tail(obj_nums))
                  IN  IF rest.exc # "none" THEN rest
                      ELSE Returns(<<first.value>> \o rest.value)

extract_images(document, obj_nums) ==
    LET images == images_of(document, obj_nums)
    IN  IF images.exc # "none" THEN images
        ELSE Returns(SelectSeq(images.value,
                               LAMBDA image : image # <<>>))

InitImages ==
    /\ CmpIdle /\ PdfIdle /\ OutIdle /\ DocxIdle /\ EpubIdle /\ OcrIdle
    /\ ReadIdle
    /\ call_pc = "call"
    /\ \/ /\ call_function = "_get_image"
          /\ call_args \in
                { <<document, obj_num>> :
                    document \in Documents, obj_num \in 1..MaxObjects }
       \/ /\ call_function = "extract_images"
          /\ call_args \in
                { <<document, obj_nums>> :
                    document \in Documents,
                    obj_nums \in StringsUpTo(1..MaxObjects, MaxObjNums) }
    /\ call_return = "none"

Call_get_image ==
    /\ call_function = "_get_image"
    /\ call_pc = "call"
    /\ call_pc' = "done"
    /\ call_return' = _get_image(call_args[1], call_args[2], 0)
    /\ UNCHANGED <<call_function, call_args>>
    /\ UNCHANGED notCall

Call_extract_images ==
    /\ call_function = "extract_images"
    /\ call_pc = "call"
    /\ call_pc' = "done"
    /\ call_return' = extract_images(call_args[1], call_args[2])
    /\ UNCHANGED <<call_function, call_args>>
    /\ UNCHANGED notCall

NextImages == Call_get_image \/ Call_extract_images

SpecImages == InitImages /\ [][NextImages]_vars

\* the object fails: it yields no image
FailsValidation(document, obj_num) == getobj(document, obj_num) # "image"

\* C32: _get_image(N) examines N, and N + 1 only after N was too small,
\* never a third object, and returns "" when both fail.
C32_TwoObjectsThenEmpty ==
    (call_function = "_get_image" /\ call_pc = "done") =>
        LET document == call_args[1]
            N == call_args[2]
        IN  /\ call_return.examined \in {<<N>>, <<N, N + 1>>}
            /\ call_return.examined = <<N, N + 1>> =>
                  getobj(document, N) = "small"
            /\ (FailsValidation(document, N)
                  /\ FailsValidation(document, N + 1)) =>
                  (call_return.exc = "none" /\ call_return.value = <<>>)

RECURSIVE IsSubsequence(_, _)
\* the members of part appear in whole, in the order of part
IsSubsequence(part, whole) ==
    IF part = <<>> THEN TRUE
    ELSE IF whole = <<>> THEN FALSE
    ELSE IF Head(part) = Head(whole)
    THEN IsSubsequence(Tail(part), Tail(whole))
    ELSE IsSubsequence(part, Tail(whole))

\* the encodings of the objects of obj_nums that pass validation
ValidEncodings(document, obj_nums) ==
    LET valid == SelectSeq(obj_nums,
                           LAMBDA n : ~FailsValidation(document, n))
    IN  [i \in 1..Len(valid) |-> EncodingOf(valid[i])]

\* C33: extract_images never raises and returns, without an entry for a
\* failed image, the encodings of the other images in their order.
C33_FailedImageSkipped ==
    (call_function = "extract_images" /\ call_pc = "done") =>
        /\ call_return.exc = "none"
        /\ \A i \in 1..Len(call_return.value) : call_return.value[i] # <<>>
        /\ IsSubsequence(ValidEncodings(call_args[1], call_args[2]),
                         call_return.value)

-----------------------------------------------------------------------------
(* SpecBlobs: DocxImageExtractor._extract_image_blobs on every paragraph   *)
(* of up to MaxBlips a:blip elements.  A blip is its r:embed attribute     *)
(* ("none" when the attribute is missing); paragraph.part is "None" or the *)
(* part whose related_parts are RelatedParts.                              *)

MaxBlips == 3

\* related_parts of the part: two image parts with a blob and one whose
\* blob property raises ValueError
RelatedParts ==
    [rId \in {"rId1", "rId2", "rIdCorrupt"} |->
        CASE rId = "rId1" -> [blob |-> "blob1"]
          [] rId = "rId2" -> [blob |-> "blob2"]
          [] rId = "rIdCorrupt" -> [blob |-> "raises"]]

\* the r:embed attributes: missing, three known ids, one unknown id
Embeds == {"none", "rId1", "rId2", "rIdCorrupt", "rId9"}

BlipParagraphs ==
    [part : {"None", "part"}, blips : StringsUpTo(Embeds, MaxBlips)]

\* the three statements of the try block, for one blip
image_blob(paragraph, blip) ==
    IF blip = "none" THEN Raises("KeyError")
    ELSE IF paragraph.part = "None" THEN Raises("AttributeError")
    ELSE IF blip \notin DOMAIN RelatedParts THEN Raises("KeyError")
    ELSE IF RelatedParts[blip].blob = "raises" THEN Raises("ValueError")
    ELSE Returns(RelatedParts[blip].blob)

\* mutant of except_corrupted: KeyError is not caught
except_corrupted_no_KeyError(exc) == exc \in {"ValueError", "AttributeError"}

\* except (KeyError, ValueError, AttributeError)
except_corrupted(exc) == exc \in {"KeyError", "ValueError", "AttributeError"}

RECURSIVE for_blip(_, _, _)
\* the loop over blips, from the blips left and the blobs collected
for_blip(paragraph, blips, image_blobs) ==
    IF blips = <<>> THEN Returns(image_blobs)
    ELSE LET got == image_blob(paragraph, Head(blips))
         IN  IF got.exc = "none"
             THEN for_blip(paragraph, Tail(blips),
                           Append(image_blobs, got.value))
             ELSE IF except_corrupted(got.exc)
             THEN for_blip(paragraph, Tail(blips), image_blobs)
             ELSE Raises(got.exc)

_extract_image_blobs(paragraph) == for_blip(paragraph, paragraph.blips, <<>>)

InitBlobs ==
    /\ CmpIdle /\ PdfIdle /\ OutIdle /\ DocxIdle /\ EpubIdle /\ OcrIdle
    /\ ReadIdle
    /\ call_pc = "call"
    /\ call_function = "_extract_image_blobs"
    /\ call_args \in { <<paragraph>> : paragraph \in BlipParagraphs }
    /\ call_return = "none"

Call_extract_image_blobs ==
    /\ call_function = "_extract_image_blobs"
    /\ call_pc = "call"
    /\ call_pc' = "done"
    /\ call_return' = _extract_image_blobs(call_args[1])
    /\ UNCHANGED <<call_function, call_args>>
    /\ UNCHANGED notCall

NextBlobs == Call_extract_image_blobs

SpecBlobs == InitBlobs /\ [][NextBlobs]_vars

\* a reference that names an image part of an existing part
ValidReference(paragraph, blip) ==
    paragraph.part = "part" /\ blip \in {"rId1", "rId2"}

\* the blobs of the valid references, in the order of the blips
ValidBlobs(paragraph) ==
    LET valid == SelectSeq(paragraph.blips,
                           LAMBDA blip : ValidReference(paragraph, blip))
    IN  [i \in 1..Len(valid) |->
            IF valid[i] = "rId1" THEN "blob1" ELSE "blob2"]

\* C34: _extract_image_blobs never raises for a missing embed attribute,
\* an unknown relationship id, a missing part or a blob that raises, and
\* returns exactly the blobs of the valid references, in order.
C34_MalformedReferenceSkipped ==
    (call_function = "_extract_image_blobs" /\ call_pc = "done") =>
        /\ call_return.exc = "none"
        /\ call_return.value = ValidBlobs(call_args[1])

\* a paragraph with every fault between two valid references
C34_Witness ==
    /\ call_function = "_extract_image_blobs"
    /\ call_pc = "done"
    /\ call_args[1].part = "part"
    /\ call_args[1].blips = <<"rId2", "rIdCorrupt", "rId1">>
    /\ call_return = Returns(<<"blob2", "blob1">>)

-----------------------------------------------------------------------------
(* Properties of the chunks and of page processing, continued *)

C36_Case ==
    /\ Len(window) >= 3
    /\ {window[1].value, window[2].value} = {"HEADER", "CHAPTER"}
    /\ window[3].value = "LINE"

C37_Case ==
    /\ call_function = "check_line"
    /\ call_pc = "done"
    /\ DOMAIN call_args[2] = {"title", "author"}

\* C37: check_line returns exactly one of HEADER, CHAPTER, NOT_CHAPTER and
\* LINE: HEADER for a line that starts or ends with the title or author,
\* whatever else it satisfies; else CHAPTER for a line satisfying
\* is_chapter, also when it satisfies is_not_chapter; else NOT_CHAPTER
\* for a line satisfying is_not_chapter; else LINE.
C37_Precedence ==
    C37_Case =>
        LET line == call_args[1]
            md == call_args[2]
            header == \E name \in {md.title, md.author} :
                          StartsWith(line, name) \/ EndsWith(line, name)
        IN  /\ call_return.exc = "none"
            /\ call_return.value \in {"HEADER", "CHAPTER", "NOT_CHAPTER", "LINE"}
            /\ header => call_return.value = "HEADER"
            /\ (~header /\ is_chapter(line)) => call_return.value = "CHAPTER"
            /\ (~header /\ ~is_chapter(line) /\ is_not_chapter(line, md)) =>
                  call_return.value = "NOT_CHAPTER"
            /\ (~header /\ ~is_chapter(line) /\ ~is_not_chapter(line, md)) =>
                  call_return.value = "LINE"

\* the line "ten" under the title "T": a chapter number that also starts
\* with the title in lower case
C37_Witness ==
    /\ C37_Case
    /\ call_args[1] = <<"t", "e", "n">>
    /\ is_chapter(call_args[1])
    /\ is_not_chapter(call_args[1], call_args[2])
    /\ ~is_header(call_args[1], call_args[2])
    /\ call_return = Returns("CHAPTER")

\* a chapter line and a keyword line that end with the title are headers
C37_HeaderFirst ==
    /\ C37_Case
    /\ call_args[1] \in { <<"C", " ", "T">>, <<"k", " ", "T">> }
    /\ call_return = Returns("HEADER")

\* pages of up to MaxPageLines elements
MaxPageLines == 4

ReadPageLine == index < MaxPageLines /\ ReadLine

NextPDFLoop ==
    NextPage \/ ReadPageLine \/ ReadSplitPart \/ EndOfPage \/ EndOfPages

\* the loop of _process_page_text goes on: a part spliced in is visited,
\* and the function returns when index has reached the end of the list
SpecPDFLoop ==
    /\ InitPDF
    /\ [][NextPDFLoop]_vars
    /\ WF_vars(ReadSplitPart)
    /\ WF_vars(EndOfPage)

SeparatorsOnly(prefix) ==
    LET stars == SelectSeq(prefix, LAMBDA c : c # NL)
    IN  /\ \A i \in 1..Len(stars) : stars[i] = "*"
        /\ Len(stars) % 3 = 0

\* stripped is text without leading separators, the rest unchanged
OnlySeparatorsRemoved(text, stripped) ==
    \E k \in 0..Len(text) :
        /\ stripped = SubSeq(text, k + 1, Len(text))
        /\ SeparatorsOnly(SubSeq(text, 1, k))

\* what return_string joins, before any stripping
Joined(conv, generator) ==
    CASE conv = "pdf" -> Join(NonBlank(generator))
      [] conv = "docx" -> JoinWith(NonBlank(generator), <<NL>>)
      [] conv = "epub" -> JoinWith(generator, Epub_chapter_separator)
      [] conv = "text" -> JoinWith(NonBlank(generator), <<NL>>)

\* C39: return_string and the first write_text remove leading separators
\* only; the body, and an asterisk or bullet its first line starts with,
\* is kept.
C39_BodyKept ==
    /\ result # "none" =>
          OnlySeparatorsRemoved(Joined(converter, yielded), result)
    /\ (Len(yielded) = 1 /\ file_exists) =>
          \E k \in 0..Len(yielded[1]) :
              LET cleaned == SubSeq(yielded[1], k + 1, Len(yielded[1]))
              IN  /\ SeparatorsOnly(SubSeq(yielded[1], 1, k))
                  /\ file_content = write_text(converter, cleaned, TRUE, <<>>)

\* C40: the text written chunk by chunk to a file that did not exist is,
\* up to a trailing newline, the string return_string makes of the same
\* chunks.
C40_FileEqualsString ==
    result # "none" =>
        \/ file_content = result
        \/ file_content = result \o <<NL>>

====
